---- MODULE Spec2Model ----
(***************************************************************************)
(* A model of the two agents of this repository: CTOAgent                  *)
(* (src/cto_agent/agent.py) and PrincipalSE (src/principal_se/agent.py).   *)
(*                                                                         *)
(* Python values are modelled as follows.  A dict is a function whose      *)
(* DOMAIN is its key set, a list is a sequence, a str is a string, None is *)
(* the record None.  A timestamp (datetime.utcnow().isoformat()) is the    *)
(* string IsoFormat(now) of the clock reading `now`; one call reads the    *)
(* clock once.  A float score is an exact decimal held as an integer       *)
(* number of thousandths (decision scores) or of tenths (fit scores).      *)
(***************************************************************************)
EXTENDS Integers, Sequences, FiniteSets, TLC

VARIABLES
    agent,   \* the agent instance the caller holds (NoAgent before construction)
    now,     \* the clock read by datetime.utcnow()
    file,    \* the content of the state file, a sequence of JSON tokens (NoFile: absent)
    saved,   \* history: the snapshot handed to json.dump by the last completed save_state
    ret,     \* the last call: its name, its arguments and, once it has returned, what
             \* it returned or raised
    heap,    \* the mutable containers of the instances of `inst`, by address
    inst,    \* two agent instances whose container fields hold heap addresses
    writers  \* the save_state calls in progress on the state file

vars == <<agent, now, file, saved, ret, heap, inst, writers>>

\* The largest clock reading explored.
MaxClock == 1

----------------------------------------------------------------------------
(* Python values *)

None == [None |-> TRUE]

EmptyDict == [k \in {} |-> None]

EmptyList == <<>>

\* dict.get(k, default)
Get(d, k, default) == IF k \in DOMAIN d THEN d[k] ELSE default

\* d[k] = v
Put(d, k, v) == [x \in (DOMAIN d) \cup {k} |-> IF x = k THEN v ELSE d[x]]

\* the dict d with the keys of K deleted
Without(d, K) == [x \in (DOMAIN d) \ K |-> d[x]]

\* Python truthiness of a container-or-None value (`x or {}`, `if not x`)
Truthy(v) == v # None /\ DOMAIN v # {}

\* the outcome of a call that raised the exception exc
Raise(exc) == [kind |-> exc]

\* whether the outcome x of a call is an exception
Raised(x) ==
    /\ "kind" \in DOMAIN x
    /\ x.kind \in {"KeyError", "ValueError", "TypeError", "IndexError", "AttributeError",
                   "JSONDecodeError", "FileNotFoundError"}

NoAgent == [kind |-> "none"]

\* no instance is held under either of the two names a and b
NoInstances == [i \in {"a", "b"} |-> NoAgent]

\* no save_state call is in progress
NoWriters == <<>>

\* str.lower() of one character
LowerChar(c) ==
    CASE c = "A" -> "a" [] c = "B" -> "b" [] c = "C" -> "c" [] c = "D" -> "d"
      [] c = "E" -> "e" [] c = "F" -> "f" [] c = "G" -> "g" [] c = "H" -> "h"
      [] c = "I" -> "i" [] c = "J" -> "j" [] c = "K" -> "k" [] c = "L" -> "l"
      [] c = "M" -> "m" [] c = "N" -> "n" [] c = "O" -> "o" [] c = "P" -> "p"
      [] c = "Q" -> "q" [] c = "R" -> "r" [] c = "S" -> "s" [] c = "T" -> "t"
      [] c = "U" -> "u" [] c = "V" -> "v" [] c = "W" -> "w" [] c = "X" -> "x"
      [] c = "Y" -> "y" [] c = "Z" -> "z" [] OTHER -> c

\* str.lower()
RECURSIVE Lower(_)
Lower(str) ==
    IF Len(str) = 0 THEN str
    ELSE LowerChar(SubSeq(str, 1, 1)) \o Lower(SubSeq(str, 2, Len(str)))

\* sub in str
Contains(str, sub) ==
    \/ Len(sub) = 0
    \/ \E i \in 1..(Len(str) - Len(sub) + 1) : SubSeq(str, i, i + Len(sub) - 1) = sub

\* str(d) of a digit d
Digit(d) == SubSeq("0123456789", d + 1, d + 1)

\* datetime.isoformat() of the clock reading t
IsoFormat(t) == "2024-01-01T00:00:0" \o Digit(t)

----------------------------------------------------------------------------
(* CTOAgent: src/cto_agent/agent.py *)

\* @dataclass TechnologyTrend
TechnologyTrend(name, category, maturity, potential_impact, description, relevant_use_cases, last_updated) ==
    [name |-> name, category |-> category, maturity |-> maturity,
     potential_impact |-> potential_impact, description |-> description,
     relevant_use_cases |-> relevant_use_cases, last_updated |-> last_updated]

\* the default_techs list of CTOAgent._init_default_technologies, created at time t
CTODefaultTechs(t) ==
    << TechnologyTrend("AI/ML", "Artificial Intelligence", "growth", "High",
           "Advancements in machine learning and AI are transforming business operations.",
           <<"automation", "predictive analytics", "personalization">>, t),
       TechnologyTrend("Cloud Native", "Cloud Computing", "mature", "High",
           "Cloud-native technologies enable scalable and resilient applications.",
           <<"microservices", "containers", "serverless">>, t) >>

\* for tech in techs: portfolio[tech.name] = tech   (a later entry of the same name wins)
RECURSIVE InsertAll(_, _)
InsertAll(portfolio, techs) ==
    IF techs = <<>> THEN portfolio
    ELSE InsertAll(Put(portfolio, Head(techs).name, Head(techs)), Tail(techs))

\* CTOAgent.__init__ called at time t
CTOAgentInit(company_name, industry, tech_stack, t) ==
    [kind |-> "CTOAgent",
     company_name |-> company_name,
     industry |-> industry,
     tech_stack |-> IF Truthy(tech_stack) THEN tech_stack ELSE EmptyDict,
     technology_portfolio |-> InsertAll(EmptyDict, CTODefaultTechs(t)),
     strategic_goals |-> EmptyList,
     team_structure |-> EmptyDict,
     budget_allocation |-> EmptyDict]

\* CTOAgent.to_dict
CTOToDict(a) ==
    [company_name |-> a.company_name,
     industry |-> a.industry,
     tech_stack |-> a.tech_stack,
     strategic_goals |-> a.strategic_goals,
     technology_portfolio |->
        [n \in DOMAIN a.technology_portfolio |->
            [category |-> a.technology_portfolio[n].category,
             maturity |-> a.technology_portfolio[n].maturity,
             potential_impact |-> a.technology_portfolio[n].potential_impact,
             description |-> a.technology_portfolio[n].description,
             relevant_use_cases |-> a.technology_portfolio[n].relevant_use_cases,
             last_updated |-> a.technology_portfolio[n].last_updated]],
     team_structure |-> a.team_structure,
     budget_allocation |-> a.budget_allocation]

\* the keys CTOAgent.from_dict reads with data[...] and tech_data[...]
CTORequiredKeys == {"company_name", "industry"}

CTOTechRequiredKeys == {"category", "maturity", "potential_impact", "description",
                        "relevant_use_cases"}

\* a from_dict that stamps every rebuilt record with the time of the call
CTORebuildPortfolioRestamped(portfolio_data, t) ==
    [n \in DOMAIN portfolio_data |->
        TechnologyTrend(n,
            portfolio_data[n].category,
            portfolio_data[n].maturity,
            portfolio_data[n].potential_impact,
            portfolio_data[n].description,
            portfolio_data[n].relevant_use_cases,
            t)]

\* the rebuilt portfolio of CTOAgent.from_dict at time t
CTORebuildPortfolio(portfolio_data, t) ==
    [n \in DOMAIN portfolio_data |->
        TechnologyTrend(n,
            portfolio_data[n].category,
            portfolio_data[n].maturity,
            portfolio_data[n].potential_impact,
            portfolio_data[n].description,
            portfolio_data[n].relevant_use_cases,
            Get(portfolio_data[n], "last_updated", t))]

\* a from_dict that reads strategic_goals with data[...] instead of data.get(...)
CTOFromDictStrict(data, t) ==
    IF ~((CTORequiredKeys \cup {"strategic_goals"}) \subseteq DOMAIN data)
    THEN Raise("KeyError")
    ELSE LET portfolio_data == Get(data, "technology_portfolio", EmptyDict)
             constructed == CTOAgentInit(data.company_name, data.industry,
                                         Get(data, "tech_stack", EmptyDict), t)
         IN  [constructed EXCEPT
                     !.strategic_goals = data.strategic_goals,
                     !.team_structure = Get(data, "team_structure", EmptyDict),
                     !.budget_allocation = Get(data, "budget_allocation", EmptyDict),
                     !.technology_portfolio = CTORebuildPortfolio(portfolio_data, t)]

\* CTOAgent.from_dict called at time t: the new agent, or the exception raised
CTOFromDict(data, t) ==
    IF ~(CTORequiredKeys \subseteq DOMAIN data) THEN Raise("KeyError")
    ELSE LET portfolio_data == Get(data, "technology_portfolio", EmptyDict)
             constructed == CTOAgentInit(data.company_name, data.industry,
                                         Get(data, "tech_stack", EmptyDict), t)
         IN  IF \E n \in DOMAIN portfolio_data :
                    ~(CTOTechRequiredKeys \subseteq DOMAIN portfolio_data[n])
             THEN Raise("KeyError")
             ELSE [constructed EXCEPT
                     !.strategic_goals = Get(data, "strategic_goals", EmptyList),
                     !.team_structure = Get(data, "team_structure", EmptyDict),
                     !.budget_allocation = Get(data, "budget_allocation", EmptyDict),
                     !.technology_portfolio = CTORebuildPortfolio(portfolio_data, t)]

----------------------------------------------------------------------------
(* PrincipalSE: src/principal_se/agent.py *)

\* class ArchitecturePattern(Enum): the members
ArchitecturePattern ==
    {"ArchitecturePattern.MICROSERVICES", "ArchitecturePattern.EVENT_DRIVEN",
     "ArchitecturePattern.LAYERED", "ArchitecturePattern.PIPE_FILTER",
     "ArchitecturePattern.CQRS", "ArchitecturePattern.SERVERLESS",
     "ArchitecturePattern.MICROKERNEL"}

\* member.value
PatternValue(m) ==
    CASE m = "ArchitecturePattern.MICROSERVICES" -> "Microservices"
      [] m = "ArchitecturePattern.EVENT_DRIVEN" -> "Event-Driven Architecture"
      [] m = "ArchitecturePattern.LAYERED" -> "Layered Architecture"
      [] m = "ArchitecturePattern.PIPE_FILTER" -> "Pipe-Filter"
      [] m = "ArchitecturePattern.CQRS" -> "Command Query Responsibility Segregation"
      [] m = "ArchitecturePattern.SERVERLESS" -> "Serverless"
      [] m = "ArchitecturePattern.MICROKERNEL" -> "Microkernel"

\* ArchitecturePattern(v) is defined (no ValueError) for exactly the members' values
IsPatternValue(v) == \E m \in ArchitecturePattern : PatternValue(m) = v

\* ArchitecturePattern(v): the member whose value is v
PatternOfValue(v) == CHOOSE m \in ArchitecturePattern : PatternValue(m) = v

\* @dataclass Technology
Technology(name, category, maturity, adoption_level, description, pros, cons, use_cases, last_evaluated) ==
    [name |-> name, category |-> category, maturity |-> maturity,
     adoption_level |-> adoption_level, description |-> description,
     pros |-> pros, cons |-> cons, use_cases |-> use_cases,
     last_evaluated |-> last_evaluated]

\* @dataclass SystemDesign
SystemDesign(name, description, components, patterns, technologies, scalability_considerations, failure_modes, created_at) ==
    [name |-> name, description |-> description, components |-> components,
     patterns |-> patterns, technologies |-> technologies,
     scalability_considerations |-> scalability_considerations,
     failure_modes |-> failure_modes, created_at |-> created_at]

\* the default_techs list of PrincipalSE._init_default_technologies, created at time t
PSEDefaultTechs(t) ==
    << Technology("Docker", "Containerization", "mature", "production",
           "Platform for developing, shipping, and running applications in containers",
           <<"Lightweight", "Portable", "Ecosystem">>,
           <<"Security concerns if not properly configured", "Learning curve">>,
           <<"Microservices", "CI/CD", "Development environments">>, t),
       Technology("Kubernetes", "Container Orchestration", "mature", "production",
           "Open-source container orchestration system",
           <<"Scalability", "High availability", "Self-healing">>,
           <<"Complexity", "Steep learning curve">>,
           <<"Microservices orchestration", "Cloud-native applications">>, t) >>

\* PrincipalSE.__init__ called at time t
PrincipalSEInit(name, expertise, experience_years, t) ==
    [kind |-> "PrincipalSE",
     name |-> name,
     expertise |-> expertise,
     experience_years |-> experience_years,
     technologies |-> InsertAll(EmptyDict, PSEDefaultTechs(t)),
     design_patterns |-> EmptyList,
     cloud_providers |-> EmptyList,
     code_review_findings |-> EmptyList,
     system_designs |-> EmptyDict]

\* the default of __init__'s experience_years parameter
InitExperienceYears == 10

\* the default PrincipalSE.from_dict gives a snapshot without experience_years
FromDictExperienceYears == 5

\* the patterns list built by PrincipalSE.design_system
DesignPatterns(requirements) ==
    LET p1 == IF "scale" \in DOMAIN requirements /\ requirements.scale = "large"
              THEN <<"ArchitecturePattern.MICROSERVICES">> ELSE <<>>
        p2 == IF Get(requirements, "real_time_processing", FALSE)
              THEN p1 \o <<"ArchitecturePattern.EVENT_DRIVEN">> ELSE p1
    IN  IF p2 = <<>> THEN <<"ArchitecturePattern.LAYERED">> ELSE p2

\* the SystemDesign PrincipalSE.design_system creates at time t
DesignOf(requirements, t) ==
    LET system_name == Get(requirements, "name", "Unnamed System")
    IN  SystemDesign(system_name,
            "System design for " \o system_name \o " with "
                \o Get(requirements, "scale", "medium") \o " scale",
            EmptyList, DesignPatterns(requirements), EmptyList, EmptyList, EmptyList, t)

\* [p.value for p in patterns]
PatternValues(patterns) == [i \in 1..Len(patterns) |-> PatternValue(patterns[i])]

\* PrincipalSE.to_dict
PSEToDict(a) ==
    [name |-> a.name,
     expertise |-> a.expertise,
     experience_years |-> a.experience_years,
     technologies |->
        [n \in DOMAIN a.technologies |->
            [category |-> a.technologies[n].category,
             maturity |-> a.technologies[n].maturity,
             adoption_level |-> a.technologies[n].adoption_level,
             description |-> a.technologies[n].description,
             pros |-> a.technologies[n].pros,
             cons |-> a.technologies[n].cons,
             use_cases |-> a.technologies[n].use_cases,
             last_evaluated |-> a.technologies[n].last_evaluated]],
     system_designs |->
        [n \in DOMAIN a.system_designs |->
            [description |-> a.system_designs[n].description,
             patterns |-> PatternValues(a.system_designs[n].patterns),
             technologies |-> a.system_designs[n].technologies,
             created_at |-> a.system_designs[n].created_at]]]

\* the keys PrincipalSE.from_dict reads with data[...], tech_data[...], design_data[...]
PSERequiredKeys == {"name", "expertise"}

PSETechRequiredKeys == {"category", "maturity", "adoption_level", "description",
                        "pros", "cons", "use_cases"}

PSEDesignRequiredKeys == {"description", "patterns", "technologies"}

\* the rebuilt catalog of PrincipalSE.from_dict at time t
PSERebuildTechnologies(tech_data, t) ==
    [n \in DOMAIN tech_data |->
        Technology(n,
            tech_data[n].category,
            tech_data[n].maturity,
            tech_data[n].adoption_level,
            tech_data[n].description,
            tech_data[n].pros,
            tech_data[n].cons,
            tech_data[n].use_cases,
            Get(tech_data[n], "last_evaluated", t))]

\* the rebuilt designs of PrincipalSE.from_dict at time t
PSERebuildDesigns(design_data, t) ==
    [n \in DOMAIN design_data |->
        SystemDesign(n,
            design_data[n].description,
            EmptyList,
            [i \in 1..Len(design_data[n].patterns) |->
                PatternOfValue(design_data[n].patterns[i])],
            design_data[n].technologies,
            EmptyList,
            EmptyList,
            Get(design_data[n], "created_at", t))]

\* PrincipalSE.from_dict called at time t: the new agent, or the exception raised
PSEFromDict(data, t) ==
    IF ~(PSERequiredKeys \subseteq DOMAIN data) THEN Raise("KeyError")
    ELSE LET tech_data == Get(data, "technologies", EmptyDict)
             design_data == Get(data, "system_designs", EmptyDict)
             constructed == PrincipalSEInit(data.name, data.expertise,
                                Get(data, "experience_years", FromDictExperienceYears), t)
         IN  IF \E n \in DOMAIN tech_data :
                    ~(PSETechRequiredKeys \subseteq DOMAIN tech_data[n])
             THEN Raise("KeyError")
             ELSE IF \E n \in DOMAIN design_data :
                    ~(PSEDesignRequiredKeys \subseteq DOMAIN design_data[n])
             THEN Raise("KeyError")
             ELSE IF \E n \in DOMAIN design_data :
                    \E i \in 1..Len(design_data[n].patterns) :
                        ~IsPatternValue(design_data[n].patterns[i])
             THEN Raise("ValueError")
             ELSE [constructed EXCEPT
                     !.technologies = PSERebuildTechnologies(tech_data, t),
                     !.system_designs = PSERebuildDesigns(design_data, t)]

\* to_dict / from_dict of whichever class the agent is
ToDict(a) == IF a.kind = "CTOAgent" THEN CTOToDict(a) ELSE PSEToDict(a)

----------------------------------------------------------------------------
(* The queries *)

\* a CTOAgent.assess_technology that takes the second rule for High impact only
AssessTechnologyHighOnly(a, technology_name, business_context) ==
    LET tech == Get(a.technology_portfolio, technology_name, None)
    IN  IF tech = None
        THEN [status |-> "unknown", message |-> "No data on " \o technology_name]
        ELSE LET base == [technology |-> tech.name, maturity |-> tech.maturity,
                          potential_impact |-> tech.potential_impact]
             IN  IF tech.maturity = "emerging" /\ tech.potential_impact = "High"
                 THEN base @@ [recommendation |-> "Monitor and consider pilot projects",
                               rationale |-> "High potential impact warrants monitoring despite emerging status"]
                 ELSE IF tech.maturity = "mature" /\ tech.potential_impact = "High"
                 THEN base @@ [recommendation |-> "Strong candidate for adoption",
                               rationale |-> "Mature technology with significant potential impact"]
                 ELSE base @@ [recommendation |-> "Evaluate case-by-case",
                               rationale |-> "Needs further evaluation based on specific use cases"]

\* CTOAgent.assess_technology: the dict returned (business_context is not read)
AssessTechnology(a, technology_name, business_context) ==
    LET tech == Get(a.technology_portfolio, technology_name, None)
    IN  IF tech = None
        THEN [status |-> "unknown", message |-> "No data on " \o technology_name]
        ELSE LET base == [technology |-> tech.name, maturity |-> tech.maturity,
                          potential_impact |-> tech.potential_impact]
             IN  IF tech.maturity = "emerging" /\ tech.potential_impact = "High"
                 THEN base @@ [recommendation |-> "Monitor and consider pilot projects",
                               rationale |-> "High potential impact warrants monitoring despite emerging status"]
                 ELSE IF tech.maturity = "mature"
                         /\ tech.potential_impact \in {"High", "Medium"}
                 THEN base @@ [recommendation |-> "Strong candidate for adoption",
                               rationale |-> "Mature technology with significant potential impact"]
                 ELSE base @@ [recommendation |-> "Evaluate case-by-case",
                               rationale |-> "Needs further evaluation based on specific use cases"]

\* a table lookup with the maturity as written, not lower-cased
MaturityScoreAsWritten(maturity) ==
    CASE maturity = "mature" -> 10
      [] maturity = "growth" -> 8
      [] maturity = "emerging" -> 6
      [] maturity = "legacy" -> 4
      [] OTHER -> 5

\* maturity_scores.get(maturity.lower(), 0.5), in tenths
MaturityScore(maturity) ==
    LET m == Lower(maturity)
    IN  CASE m = "mature" -> 10
          [] m = "growth" -> 8
          [] m = "emerging" -> 6
          [] m = "legacy" -> 4
          [] OTHER -> 5

\* sum(1 for req in requirements if any(req.lower() in uc.lower() for uc in use_cases))
Matched(requirements, use_cases) ==
    LET lowered == [j \in 1..Len(use_cases) |-> Lower(use_cases[j])]
    IN  Cardinality({ i \in 1..Len(requirements) :
                        \E j \in 1..Len(use_cases) :
                            Contains(lowered[j], Lower(requirements[i])) })

\* round(n / d) of a non-negative fraction, to the nearest integer, a tie to the even
\* one (Python's round)
RoundDiv(n, d) ==
    LET q == n \div d
        r == n % d
    IN  IF 2 * r < d THEN q
        ELSE IF 2 * r > d THEN q + 1
        ELSE IF q % 2 = 0 THEN q ELSE q + 1

\* a fit score that is rounded without being scaled to 0-10: round(score, 1)
CalculateTechFitScoreUnscaled(tech, context) ==
    LET requirements == Get(context, "requirements", EmptyList)
        maturity_part == MaturityScore(tech.maturity) * 4
    IN  IF Len(requirements) > 0
        THEN RoundDiv(maturity_part * Len(requirements)
                        + 60 * Matched(requirements, tech.use_cases),
                      10 * Len(requirements))
        ELSE RoundDiv(maturity_part, 10)

\* a fit score that counts an absent or empty requirements list as fully matched
CalculateTechFitScoreEmptyAsMatched(tech, context) ==
    LET requirements == Get(context, "requirements", EmptyList)
        maturity_part == MaturityScore(tech.maturity) * 4
    IN  IF Len(requirements) > 0
        THEN RoundDiv(maturity_part * Len(requirements)
                        + 60 * Matched(requirements, tech.use_cases),
                      Len(requirements))
        ELSE maturity_part + 60

\* PrincipalSE._calculate_tech_fit_score, in tenths of a point: round(score * 10, 1)
\* with score = weight * 0.4 + (matched / len(requirements)) * 0.6
CalculateTechFitScore(tech, context) ==
    LET requirements == Get(context, "requirements", EmptyList)
        maturity_part == MaturityScore(tech.maturity) * 4
    IN  IF Len(requirements) > 0
        THEN RoundDiv(maturity_part * Len(requirements)
                        + 60 * Matched(requirements, tech.use_cases),
                      Len(requirements))
        ELSE maturity_part

\* bands that put the boundaries 8.0 and 6.0 in the lower band
RecommendationAboveBoundary(fit_score) ==
    IF fit_score > 80
    THEN [recommendation |-> "Strongly recommend adoption", rationale |-> ""]
    ELSE IF fit_score > 60
    THEN [recommendation |-> "Consider for pilot", rationale |-> ""]
    ELSE [recommendation |-> "Not recommended at this time", rationale |-> ""]

\* the recommendation and rationale of evaluate_technology for a fit score in tenths
Recommendation(fit_score) ==
    IF fit_score >= 80
    THEN [recommendation |-> "Strongly recommend adoption",
          rationale |-> "Excellent fit based on current requirements and technology maturity"]
    ELSE IF fit_score >= 60
    THEN [recommendation |-> "Consider for pilot",
          rationale |-> "Good potential fit, but evaluate further with a proof of concept"]
    ELSE [recommendation |-> "Not recommended at this time",
          rationale |-> "Does not align well with current requirements or technology maturity"]

\* a PrincipalSE.evaluate_technology that indexes the catalog with technologies[name]
EvaluateTechnologyIndexed(a, name, context) ==
    IF name \notin DOMAIN a.technologies THEN Raise("KeyError")
    ELSE IF context = None THEN Raise("AttributeError")
    ELSE LET tech == a.technologies[name]
             fit_score == CalculateTechFitScore(tech, context)
         IN  [technology |-> tech.name, maturity |-> tech.maturity,
              adoption_level |-> tech.adoption_level, fit_score |-> fit_score,
              pros |-> tech.pros, cons |-> tech.cons] @@ Recommendation(fit_score)

\* PrincipalSE.evaluate_technology: the dict returned, or the exception raised
\* (context.get on a context of None raises AttributeError)
EvaluateTechnology(a, name, context) ==
    LET tech == Get(a.technologies, name, None)
    IN  IF tech = None
        THEN [status |-> "not_found",
              message |-> "No data available for technology: " \o name]
        ELSE IF context = None THEN Raise("AttributeError")
        ELSE LET fit_score == CalculateTechFitScore(tech, context)
             IN  [technology |-> tech.name, maturity |-> tech.maturity,
                  adoption_level |-> tech.adoption_level, fit_score |-> fit_score,
                  pros |-> tech.pros, cons |-> tech.cons] @@ Recommendation(fit_score)

----------------------------------------------------------------------------
(* CTOAgent.make_decision.  An option's *_score fields are held in hundredths and *)
(* a computed score in thousandths, so the weights 0.5, 0.3, 0.2 are 5, 3, 2.      *)

\* min(a, b)
Min(a, b) == IF a < b THEN a ELSE b

\* x in criteria
InList(x, list) == \E i \in 1..Len(list) : list[i] = x

\* a score whose cost and risk terms are not inverted
ScoreOfNotInverted(option, criteria) ==
    (IF InList("strategic_alignment", criteria)
        THEN Get(option, "strategic_alignment_score", 0) * 5 ELSE 0)
    + (IF InList("cost", criteria)
        THEN Min(Get(option, "cost_score", 50), 100) * 3 ELSE 0)
    + (IF InList("risk", criteria)
        THEN Min(Get(option, "risk_score", 50), 100) * 2 ELSE 0)

\* a score that adds all three terms whatever the criteria list holds
ScoreOfAllCriteria(option, criteria) ==
    Get(option, "strategic_alignment_score", 0) * 5
    + (100 - Min(Get(option, "cost_score", 50), 100)) * 3
    + (100 - Min(Get(option, "risk_score", 50), 100)) * 2

\* the score make_decision computes for one option (lines 139-145)
ScoreOf(option, criteria) ==
    (IF InList("strategic_alignment", criteria)
        THEN Get(option, "strategic_alignment_score", 0) * 5 ELSE 0)
    + (IF InList("cost", criteria)
        THEN (100 - Min(Get(option, "cost_score", 50), 100)) * 3 ELSE 0)
    + (IF InList("risk", criteria)
        THEN (100 - Min(Get(option, "risk_score", 50), 100)) * 2 ELSE 0)

\* scored_options before the sort (lines 137-150)
ScoredOptions(options, criteria) ==
    [i \in 1..Len(options) |->
        [option |-> options[i], score |-> ScoreOf(options[i], criteria)]]

\* the sorted list `sorted` with x put before the first entry of a lower score
RECURSIVE InsertDescending(_, _)
InsertDescending(x, sorted) ==
    IF sorted = <<>> THEN <<x>>
    ELSE IF x.score > Head(sorted).score THEN <<x>> \o sorted
    ELSE <<Head(sorted)>> \o InsertDescending(x, Tail(sorted))

\* the sorted list `sorted` with x put before the first entry of a higher score
RECURSIVE InsertAscending(_, _)
InsertAscending(x, sorted) ==
    IF sorted = <<>> THEN <<x>>
    ELSE IF x.score < Head(sorted).score THEN <<x>> \o sorted
    ELSE <<Head(sorted)>> \o InsertAscending(x, Tail(sorted))

\* a stable ascending sort by score
RECURSIVE SortAscending(_)
SortAscending(scored) ==
    IF scored = <<>> THEN <<>>
    ELSE InsertAscending(scored[Len(scored)],
                         SortAscending(SubSeq(scored, 1, Len(scored) - 1)))

\* list[::-1]
Reverse(list) == [i \in 1..Len(list) |-> list[Len(list) + 1 - i]]

\* a descending sort made of an ascending sort and a reversal
SortThenReverse(scored) == Reverse(SortAscending(scored))

\* scored_options.sort(key=lambda x: x["score"], reverse=True).  list.sort is stable,
\* with reverse=True too: each entry, in input order, goes before the first entry of a
\* strictly lower score, so entries of equal score keep their input order
RECURSIVE SortByScoreDescending(_)
SortByScoreDescending(scored) ==
    IF scored = <<>> THEN <<>>
    ELSE InsertDescending(scored[Len(scored)],
                          SortByScoreDescending(SubSeq(scored, 1, Len(scored) - 1)))

\* ', '.join(list)
RECURSIVE Join(_)
Join(list) ==
    IF list = <<>> THEN ""
    ELSE IF Len(list) = 1 THEN list[1]
    ELSE list[1] \o ", " \o Join(Tail(list))

\* the default of decision_context.get("criteria", ...)
DefaultCriteria == <<"strategic_alignment", "cost", "risk">>

\* a make_decision without the guard on an empty options list
MakeDecisionUnguarded(decision_context) ==
    LET options == Get(decision_context, "options", EmptyList)
        criteria == Get(decision_context, "criteria", DefaultCriteria)
        scored_options == SortByScoreDescending(ScoredOptions(options, criteria))
    IN  IF Len(scored_options) = 0 THEN Raise("IndexError")
        ELSE [decision |-> scored_options[1].option,
              score |-> scored_options[1].score,
              rationale |-> "Selected option based on criteria: " \o Join(criteria),
              all_options |-> scored_options]

\* a make_decision whose all_options holds the best entry only
MakeDecisionTopOnly(decision_context) ==
    LET options == Get(decision_context, "options", EmptyList)
        criteria == Get(decision_context, "criteria", DefaultCriteria)
    IN  IF Len(options) = 0
        THEN [decision |-> None, rationale |-> "No options provided for decision"]
        ELSE LET scored_options ==
                     SortByScoreDescending(ScoredOptions(options, criteria))
             IN  [decision |-> scored_options[1].option,
                  score |-> scored_options[1].score,
                  rationale |-> "Selected option based on criteria: " \o Join(criteria),
                  all_options |-> << scored_options[1] >>]

\* CTOAgent.make_decision: the dict returned
MakeDecision(decision_context) ==
    LET options == Get(decision_context, "options", EmptyList)
        criteria == Get(decision_context, "criteria", DefaultCriteria)
    IN  IF Len(options) = 0
        THEN [decision |-> None, rationale |-> "No options provided for decision"]
        ELSE LET scored_options ==
                     SortByScoreDescending(ScoredOptions(options, criteria))
             IN  [decision |-> scored_options[1].option,
                  score |-> scored_options[1].score,
                  rationale |-> "Selected option based on criteria: " \o Join(criteria),
                  all_options |-> scored_options]

----------------------------------------------------------------------------
(* save_state and load_state.  The file is a sequence of tokens: json.dump writes *)
(* an opening brace, one key/value pair per key of the snapshot in the dict's     *)
(* order, and a closing brace; json.load accepts exactly such a sequence.         *)

\* the state file does not exist
NoFile == << [tok |-> "absent"] >>

\* the order in which to_dict inserts the keys of a snapshot (either class)
SnapshotKeyOrder ==
    << "company_name", "industry", "tech_stack", "strategic_goals",
       "technology_portfolio", "team_structure", "budget_allocation",
       "name", "expertise", "experience_years", "technologies", "system_designs" >>

\* whether json.dump can encode the snapshot: str, int, list and dict values are
\* encodable, an ArchitecturePattern member is not (TypeError)
JsonSerializable(snapshot) ==
    "system_designs" \in DOMAIN snapshot =>
        \A n \in DOMAIN snapshot.system_designs :
            \A i \in 1..Len(snapshot.system_designs[n].patterns) :
                snapshot.system_designs[n].patterns[i] \notin ArchitecturePattern

\* the tokens json.dump writes for the snapshot
JsonEncode(snapshot) ==
    LET keys == SelectSeq(SnapshotKeyOrder, LAMBDA k : k \in DOMAIN snapshot)
    IN  << [tok |-> "{"] >>
        \o [i \in 1..Len(keys) |-> [tok |-> "pair", key |-> keys[i],
                                    value |-> snapshot[keys[i]]]]
        \o << [tok |-> "}"] >>

\* whether json.load accepts the content: one object and nothing after it
JsonWellFormed(content) ==
    /\ Len(content) >= 2
    /\ content[1].tok = "{"
    /\ content[Len(content)].tok = "}"
    /\ \A i \in 2..(Len(content) - 1) : content[i].tok = "pair"

\* the dict json.load builds from a well-formed content (a repeated key: the last wins)
JsonDecode(content) ==
    LET keys == { content[i].key : i \in 2..(Len(content) - 1) }
    IN  [k \in keys |->
            content[CHOOSE i \in 2..(Len(content) - 1) :
                        /\ content[i].key = k
                        /\ \A j \in (i + 1)..(Len(content) - 1) : content[j].key # k].value]

\* an open(filepath, 'r+')-like open that keeps the old content
OpenKeepingContent(content) == IF content = NoFile THEN <<>> ELSE content

\* open(filepath, 'w'): the file is created or truncated to nothing
OpenForWrite(content) == <<>>

\* the content after `tokens` are written from the start of an open file
WriteFromStart(content, tokens) ==
    tokens \o SubSeq(content, Len(tokens) + 1, Len(content))

\* save_state: the file after the call.  A snapshot json.dump cannot encode leaves the
\* tokens written before the failing value
SaveFile(content, snapshot) ==
    IF JsonSerializable(snapshot)
    THEN WriteFromStart(OpenForWrite(content), JsonEncode(snapshot))
    ELSE WriteFromStart(OpenForWrite(content),
                        SubSeq(JsonEncode(snapshot), 1, Len(JsonEncode(snapshot)) - 2))

\* the part of load_state before from_dict: the dict read, or the exception raised
LoadFile(content) ==
    IF content = NoFile THEN Raise("FileNotFoundError")
    ELSE IF ~JsonWellFormed(content) THEN Raise("JSONDecodeError")
    ELSE JsonDecode(content)

----------------------------------------------------------------------------
(* The calls a caller makes, with their inputs *)

\* datetime.utcnow().isoformat()
UtcNow == IsoFormat(now)

\* the tech_stack arguments tried (src/examples/basic_usage.py:19 gives a dict)
TechStacks == {None, [backend |-> <<"Python", "Node.js">>]}

\* the goal lists tried: none, the example's first goal, and a goal without a 'name'
GoalLists ==
    { EmptyList,
      << [name |-> "Cloud-First Strategy",
          description |-> "Migrate 100% of infrastructure to cloud-native solutions",
          timeframe |-> "18 months", priority |-> "High"] >>,
      << [description |-> "Improve developer productivity and satisfaction"] >> }

\* the records a caller adds to a CTOAgent's portfolio at time t
\* (src/examples/basic_usage.py:51-59), one of them under a default's name
CTONewTechs(t) ==
    { TechnologyTrend("Blockchain", "Distributed Ledger", "growth", "High",
          "Blockchain technology for secure and transparent financial transactions",
          <<"smart contracts", "cross-border payments", "identity verification">>, t),
      TechnologyTrend("AI/ML", "Artificial Intelligence", "mature", "Medium",
          "Machine learning in production", <<"automation">>, t) }

\* the records a caller adds to a PrincipalSE's catalog at time t
\* (src/examples/principal_se_demo.py:24-33)
PSENewTechs(t) ==
    { Technology("Rust", "Programming Language", "growth", "pilot",
          "A language empowering everyone to build reliable and efficient software.",
          <<"Memory safety without garbage collection", "Performance", "Concurrency">>,
          <<"Steep learning curve", "Longer compile times">>,
          <<"System programming", "Performance-critical applications", "WebAssembly">>,
          t) }

\* the requirements given to design_system
DesignRequirements ==
    { [name |-> "E-commerce Platform", scale |-> "large", availability |-> "99.99%"],
      [real_time_processing |-> TRUE],
      EmptyDict }

\* a hand-written CTOAgent snapshot
ExampleCTOSnapshot ==
    [company_name |-> "Acme", industry |-> "Retail",
     tech_stack |-> [frontend |-> <<"React">>],
     strategic_goals |-> EmptyList,
     technology_portfolio |->
        [Quantum |-> [category |-> "Computing", maturity |-> "emerging",
                      potential_impact |-> "High", description |-> "Quantum computing",
                      relevant_use_cases |-> <<"optimization">>,
                      last_updated |-> IsoFormat(0)]],
     team_structure |-> [engineering |-> 12],
     budget_allocation |-> [rnd |-> 15]]

\* a hand-written PrincipalSE snapshot
ExamplePSESnapshot ==
    [name |-> "Sam", expertise |-> <<"DevOps">>, experience_years |-> 3,
     technologies |->
        [Go |-> [category |-> "Programming Language", maturity |-> "growth",
                 adoption_level |-> "pilot", description |-> "Go",
                 pros |-> <<"Simple">>, cons |-> <<"Verbose">>,
                 use_cases |-> <<"Services">>, last_evaluated |-> IsoFormat(0)]],
     system_designs |->
        [Billing |-> [description |-> "System design for Billing with medium scale",
                      patterns |-> <<"Serverless">>, technologies |-> EmptyList,
                      created_at |-> IsoFormat(0)]]]

\* the snapshot s with a key the agents do not know added
WithExtraKey(s, extra) == IF extra THEN Put(s, "schema_version", "2") ELSE s

\* the snapshot s with `field` deleted from the records named in D of its mapping `key`
DropRecordField(s, key, D, field) ==
    IF key \in DOMAIN s
    THEN Put(s, key, [n \in DOMAIN s[key] |->
                        IF n \in D THEN Without(s[key][n], {field}) ELSE s[key][n]])
    ELSE s

\* the names of the records of the mapping `key` of snapshot s
RecordNames(s, key) == IF key \in DOMAIN s THEN DOMAIN s[key] ELSE {}

\* the optional keys of a snapshot: those from_dict reads with data.get(...)
CTOOptionalKeys == {"tech_stack", "strategic_goals", "team_structure",
                    "budget_allocation", "technology_portfolio"}

PSEOptionalKeys == {"experience_years", "technologies", "system_designs"}

\* the CTOAgent snapshot b with the keys K deleted, last_updated deleted from the
\* records D, and possibly an unknown key added
CTOEdit(b, K, D, extra) ==
    WithExtraKey(DropRecordField(Without(b, K), "technology_portfolio", D,
                                 "last_updated"), extra)

\* the PrincipalSE snapshot b with the keys K deleted, last_evaluated deleted from the
\* records D, created_at deleted from the designs E, and possibly an unknown key added
PSEEdit(b, K, D, E, extra) ==
    WithExtraKey(DropRecordField(DropRecordField(Without(b, K), "technologies", D,
                                                 "last_evaluated"),
                                 "system_designs", E, "created_at"), extra)

\* the snapshots a caller holding `agent` may hand to CTOAgent.from_dict: a snapshot of
\* its agent or a hand-written one, with optional keys and records' timestamps deleted
CTOSnapshotInputs ==
    LET bases == {ExampleCTOSnapshot} \cup
                 (IF agent.kind = "CTOAgent" THEN {CTOToDict(agent)} ELSE {})
    IN  UNION { { CTOEdit(b, K, D, FALSE) :
                  K \in SUBSET CTOOptionalKeys,
                  D \in {{}, RecordNames(b, "technology_portfolio")} } : b \in bases }

\* the snapshots a caller holding `agent` may hand to PrincipalSE.from_dict
PSESnapshotInputs ==
    LET bases == {ExamplePSESnapshot} \cup
                 (IF agent.kind = "PrincipalSE" THEN {PSEToDict(agent)} ELSE {})
    IN  UNION { { PSEEdit(b, K, D, E, FALSE) :
                  K \in SUBSET PSEOptionalKeys,
                  D \in {{}, RecordNames(b, "technologies")},
                  E \in {{}, RecordNames(b, "system_designs")} } : b \in bases }

----------------------------------------------------------------------------
(* The operations that change an agent *)

\* CTOAgent.set_strategic_goals: the agent after the call (line 80) ...
SetGoals(a, goals) == [a EXCEPT !.strategic_goals = goals]

\* ... and whether the log line's g['name'] raises KeyError (line 81)
SetGoalsRaises(goals) == \E i \in 1..Len(goals) : "name" \notin DOMAIN goals[i]

\* cto.technology_portfolio[tech.name] = tech
CTOInsert(a, tech) ==
    [a EXCEPT !.technology_portfolio = Put(@, tech.name, tech)]

\* principal.technologies[tech.name] = tech
PSEInsert(a, tech) ==
    [a EXCEPT !.technologies = Put(@, tech.name, tech)]

\* a design_system that keeps the design already stored under the name
DesignSystemKeepingFirst(a, requirements, t) ==
    IF DesignOf(requirements, t).name \in DOMAIN a.system_designs THEN a
    ELSE [a EXCEPT !.system_designs =
            Put(@, DesignOf(requirements, t).name, DesignOf(requirements, t))]

\* PrincipalSE.design_system at time t: the agent after the call
DesignSystem(a, requirements, t) ==
    [a EXCEPT !.system_designs =
        Put(@, DesignOf(requirements, t).name, DesignOf(requirements, t))]

Tick ==
    /\ now < MaxClock
    /\ now' = now + 1
    /\ UNCHANGED <<heap, inst, writers, agent, file, saved, ret>>

CTOConstruct ==
    \E ts \in TechStacks :
        /\ agent' = CTOAgentInit("FinTech Innovations Inc", "Financial Technology",
                                 ts, UtcNow)
        /\ ret' = [op |-> "CTOAgent.__init__", raised |-> FALSE]
        /\ UNCHANGED <<heap, inst, writers, now, file, saved>>

PSEConstruct ==
    \E years \in {InitExperienceYears, 15} :
        /\ agent' = PrincipalSEInit("Alex Johnson", <<"Cloud Architecture">>, years,
                                    UtcNow)
        /\ ret' = [op |-> "PrincipalSE.__init__", raised |-> FALSE]
        /\ UNCHANGED <<heap, inst, writers, now, file, saved>>

SetStrategicGoalsCall ==
    /\ agent.kind = "CTOAgent"
    /\ \E goals \in GoalLists :
        /\ agent' = SetGoals(agent, goals)
        /\ ret' = [op |-> "set_strategic_goals", raised |-> SetGoalsRaises(goals)]
    /\ UNCHANGED <<heap, inst, writers, now, file, saved>>

CTOInsertCall ==
    /\ agent.kind = "CTOAgent"
    /\ \E tech \in CTONewTechs(UtcNow) :
        /\ agent' = CTOInsert(agent, tech)
        /\ ret' = [op |-> "technology_portfolio.__setitem__", raised |-> FALSE]
    /\ UNCHANGED <<heap, inst, writers, now, file, saved>>

PSEInsertCall ==
    /\ agent.kind = "PrincipalSE"
    /\ \E tech \in PSENewTechs(UtcNow) :
        /\ agent' = PSEInsert(agent, tech)
        /\ ret' = [op |-> "technologies.__setitem__", raised |-> FALSE]
    /\ UNCHANGED <<heap, inst, writers, now, file, saved>>

DesignSystemCall ==
    /\ agent.kind = "PrincipalSE"
    /\ \E requirements \in DesignRequirements :
        /\ agent' = DesignSystem(agent, requirements, UtcNow)
        /\ ret' = [op |-> "design_system", raised |-> FALSE,
                   result |-> DesignOf(requirements, UtcNow)]
    /\ UNCHANGED <<heap, inst, writers, now, file, saved>>

\* agent = CTOAgent.from_dict(data): an exception leaves the caller's agent as it was
CTOFromDictCall ==
    \E data \in CTOSnapshotInputs :
        LET r == CTOFromDict(data, UtcNow)
        IN  /\ agent' = IF Raised(r) THEN agent ELSE r
            /\ ret' = [op |-> "CTOAgent.from_dict", raised |-> Raised(r)]
            /\ UNCHANGED <<heap, inst, writers, now, file, saved>>

PSEFromDictCall ==
    \E data \in PSESnapshotInputs :
        LET r == PSEFromDict(data, UtcNow)
        IN  /\ agent' = IF Raised(r) THEN agent ELSE r
            /\ ret' = [op |-> "PrincipalSE.from_dict", raised |-> Raised(r)]
            /\ UNCHANGED <<heap, inst, writers, now, file, saved>>

Init ==
    /\ agent = NoAgent
    /\ now = 0
    /\ file = NoFile
    /\ saved = None
    /\ ret = [op |-> "none", raised |-> FALSE]
    /\ heap = <<>>
    /\ inst = NoInstances
    /\ writers = NoWriters

Next ==
    \/ Tick
    \/ CTOConstruct
    \/ PSEConstruct
    \/ SetStrategicGoalsCall
    \/ CTOInsertCall
    \/ PSEInsertCall
    \/ DesignSystemCall
    \/ CTOFromDictCall
    \/ PSEFromDictCall

Spec == Init /\ [][Next]_vars

----------------------------------------------------------------------------
(* from_dict on edited snapshots *)

\* a snapshot the public API produces: a CTOAgent with goals and an added technology
ReferenceCTOSnapshot ==
    CTOToDict(SetGoals(
        CTOInsert(CTOAgentInit("FinTech Innovations Inc", "Financial Technology",
                               [backend |-> <<"Python", "Node.js">>], IsoFormat(0)),
                  TechnologyTrend("Blockchain", "Distributed Ledger", "growth", "High",
                      "Blockchain technology for secure and transparent financial transactions",
                      <<"smart contracts", "cross-border payments">>, IsoFormat(0))),
        << [name |-> "Cloud-First Strategy", priority |-> "High"] >>))

\* a snapshot the public API produces: a PrincipalSE with a design
ReferencePSESnapshot ==
    PSEToDict(DesignSystem(
        PrincipalSEInit("Alex Johnson", <<"Cloud Architecture">>, 15, IsoFormat(0)),
        [name |-> "E-commerce Platform", scale |-> "large"], IsoFormat(0)))

\* every edit of the two CTOAgent snapshots that keeps the required keys, and one
\* that lacks a required key
CTOEditedSnapshots ==
    UNION { { CTOEdit(b, K, D, extra) :
              K \in SUBSET CTOOptionalKeys,
              D \in SUBSET RecordNames(b, "technology_portfolio"),
              extra \in BOOLEAN } : b \in {ExampleCTOSnapshot, ReferenceCTOSnapshot} }
    \cup {Without(ExampleCTOSnapshot, {"industry"})}

\* every edit of the two PrincipalSE snapshots that keeps the required keys, and one
\* that lacks a required key
PSEEditedSnapshots ==
    UNION { { PSEEdit(b, K, D, E, extra) :
              K \in SUBSET PSEOptionalKeys,
              D \in SUBSET RecordNames(b, "technologies"),
              E \in SUBSET RecordNames(b, "system_designs"),
              extra \in BOOLEAN } : b \in {ExamplePSESnapshot, ReferencePSESnapshot} }
    \cup {Without(ExamplePSESnapshot, {"expertise"})}

CTOFromDictEdited ==
    \E data \in CTOEditedSnapshots :
        LET r == CTOFromDict(data, UtcNow)
        IN  /\ agent' = IF Raised(r) THEN agent ELSE r
            /\ ret' = [op |-> "CTOAgent.from_dict", raised |-> Raised(r),
                       data |-> data, at |-> UtcNow]
            /\ UNCHANGED <<heap, inst, writers, now, file, saved>>

PSEFromDictEdited ==
    \E data \in PSEEditedSnapshots :
        LET r == PSEFromDict(data, UtcNow)
        IN  /\ agent' = IF Raised(r) THEN agent ELSE r
            /\ ret' = [op |-> "PrincipalSE.from_dict", raised |-> Raised(r),
                       data |-> data, at |-> UtcNow]
            /\ UNCHANGED <<heap, inst, writers, now, file, saved>>

NextFromDict ==
    \/ Tick
    \/ CTOFromDictEdited
    \/ PSEFromDictEdited

SpecFromDict == Init /\ [][NextFromDict]_vars

----------------------------------------------------------------------------
(* The queries on catalogs of every maturity and impact *)

Maturities == {"mature", "growth", "emerging", "legacy"}

Impacts == {"High", "Medium", "Low"}

\* the names looked up: the defaults, the added ones, and names no catalog holds
LookupNames == {"AI/ML", "Cloud Native", "Blockchain", "Docker", "Rust", "Unknown", ""}

\* the contexts handed to the queries
Contexts ==
    { None, EmptyDict,
      [business_unit |-> "Payments"],
      [requirements |-> EmptyList],
      [requirements |-> <<"Microservices">>],
      [requirements |-> <<"performance-critical", "memory safety", "concurrency">>],
      [requirements |-> <<"ci/cd", "Streaming">>],
      [requirements |-> <<"microservices", "ci/cd", "memory safety">>],
      [requirements |-> <<"webassembly", "Performance">>],
      [requirements |-> <<"microservices", "ci/cd", "webassembly", "system", "gpu",
                          "mobile", "iot">>] }

\* a record of any maturity and impact is put in the portfolio under its name
CTOInsertAnyCall ==
    /\ agent.kind = "CTOAgent"
    /\ \E m \in Maturities, i \in Impacts :
        /\ agent' = CTOInsert(agent,
                        TechnologyTrend("Blockchain", "Distributed Ledger", m, i,
                            "Blockchain technology", <<"smart contracts">>, UtcNow))
        /\ ret' = [op |-> "technology_portfolio.__setitem__", raised |-> FALSE]
    /\ UNCHANGED <<heap, inst, writers, now, file, saved>>

\* a record of any maturity spelling is put in the catalog under its name
PSEInsertAnyCall ==
    /\ agent.kind = "PrincipalSE"
    /\ \E m \in Maturities \cup {"Growth", "experimental"} :
        /\ agent' = PSEInsert(agent,
                        Technology("Rust", "Programming Language", m, "pilot",
                            "A language empowering everyone to build reliable and efficient software.",
                            <<"Performance">>, <<"Steep learning curve">>,
                            <<"System programming", "Performance-critical applications",
                              "WebAssembly">>, UtcNow))
        /\ ret' = [op |-> "technologies.__setitem__", raised |-> FALSE]
    /\ UNCHANGED <<heap, inst, writers, now, file, saved>>

AssessTechnologyCall ==
    /\ agent.kind = "CTOAgent"
    /\ \E name \in LookupNames, context \in Contexts :
        LET r == AssessTechnology(agent, name, context)
        IN  ret' = [op |-> "assess_technology", raised |-> Raised(r), name |-> name,
                    context |-> context, result |-> r]
    /\ UNCHANGED <<heap, inst, writers, agent, now, file, saved>>

EvaluateTechnologyCall ==
    /\ agent.kind = "PrincipalSE"
    /\ \E name \in LookupNames, context \in Contexts :
        LET r == EvaluateTechnology(agent, name, context)
        IN  ret' = [op |-> "evaluate_technology", raised |-> Raised(r), name |-> name,
                    context |-> context, result |-> r]
    /\ UNCHANGED <<heap, inst, writers, agent, now, file, saved>>

NextQuery ==
    \/ CTOConstruct
    \/ PSEConstruct
    \/ CTOInsertAnyCall
    \/ PSEInsertAnyCall
    \/ AssessTechnologyCall
    \/ EvaluateTechnologyCall

SpecQuery == Init /\ [][NextQuery]_vars

----------------------------------------------------------------------------
(* make_decision on every short list of options *)

\* the longest options list tried
MaxOptions == 3

\* the three options of src/examples/basic_usage.py
AWS == [name |-> "AWS", description |-> "Amazon Web Services",
        strategic_alignment_score |-> 90, cost_score |-> 70, risk_score |-> 20]

Azure == [name |-> "Azure", description |-> "Microsoft Azure",
          strategic_alignment_score |-> 80, cost_score |-> 60, risk_score |-> 30]

GCP == [name |-> "GCP", description |-> "Google Cloud Platform",
        strategic_alignment_score |-> 70, cost_score |-> 80, risk_score |-> 40]

\* the options tried: the example's, two that tie under the default criteria, one
\* without scores, one with a cost above 1 and a risk below 0
OptionPool ==
    { AWS, Azure, GCP,
      [name |-> "OnPrem", strategic_alignment_score |-> 60, cost_score |-> 50,
       risk_score |-> 50],
      [name |-> "Hybrid", strategic_alignment_score |-> 50, cost_score |-> 0,
       risk_score |-> 100],
      [name |-> "Bare"],
      [name |-> "Edge", strategic_alignment_score |-> 70, cost_score |-> 150,
       risk_score |-> (0 - 20)] }

\* the criteria lists tried (and none given)
CriteriaLists ==
    { DefaultCriteria, <<"strategic_alignment">>, <<"cost">>, <<"risk">>,
      <<"risk", "cost">>, <<"speed">>, EmptyList }

\* every list of at most MaxOptions options
OptionLists == UNION { [1..n -> OptionPool] : n \in 0..MaxOptions }

\* the decision contexts tried
DecisionContexts ==
    { [options |-> o, criteria |-> c] : o \in OptionLists, c \in CriteriaLists }
    \cup { [options |-> o] : o \in OptionLists }
    \cup { [criteria |-> c] : c \in CriteriaLists }
    \cup { EmptyDict }

\* a CTOAgent is held and make_decision has been called with some context
InitDecision ==
    /\ agent = CTOAgentInit("FinTech Innovations Inc", "Financial Technology", None,
                            IsoFormat(0))
    /\ now = 0
    /\ file = NoFile
    /\ saved = None
    /\ ret \in { [op |-> "make_decision", phase |-> "called", context |-> c] :
                 c \in DecisionContexts }
    /\ heap = <<>>
    /\ inst = NoInstances
    /\ writers = NoWriters

\* make_decision runs and returns
MakeDecisionCall ==
    /\ ret.op = "make_decision"
    /\ ret.phase = "called"
    /\ LET r == MakeDecision(ret.context)
       IN  ret' = [op |-> "make_decision", phase |-> "returned",
                   context |-> ret.context, raised |-> Raised(r), result |-> r]
    /\ UNCHANGED <<heap, inst, writers, agent, now, file, saved>>

NextDecision == MakeDecisionCall

SpecDecision == InitDecision /\ [][NextDecision]_vars

----------------------------------------------------------------------------
(* Saving and loading *)

\* agent.save_state(path)
SaveStateCall ==
    /\ agent.kind # "none"
    /\ file' = SaveFile(file, ToDict(agent))
    /\ IF JsonSerializable(ToDict(agent))
       THEN /\ saved' = [kind |-> agent.kind, snapshot |-> ToDict(agent)]
            /\ ret' = [op |-> "save_state", raised |-> FALSE]
       ELSE /\ saved' = saved
            /\ ret' = [op |-> "save_state", raised |-> TRUE]
    /\ UNCHANGED <<heap, inst, writers, agent, now>>

\* agent = CTOAgent.load_state(path)
CTOLoadStateCall ==
    LET data == LoadFile(file)
        r == IF Raised(data) THEN data ELSE CTOFromDict(data, UtcNow)
    IN  /\ agent' = IF Raised(r) THEN agent ELSE r
        /\ ret' = [op |-> "CTOAgent.load_state", raised |-> Raised(r)]
        /\ UNCHANGED <<heap, inst, writers, now, file, saved>>

\* agent = PrincipalSE.load_state(path)
PSELoadStateCall ==
    LET data == LoadFile(file)
        r == IF Raised(data) THEN data ELSE PSEFromDict(data, UtcNow)
    IN  /\ agent' = IF Raised(r) THEN agent ELSE r
        /\ ret' = [op |-> "PrincipalSE.load_state", raised |-> Raised(r)]
        /\ UNCHANGED <<heap, inst, writers, now, file, saved>>

\* agent = CTOAgent.from_dict(data) with a snapshot of the required keys only
CTOFromDictMinimalCall ==
    LET r == CTOFromDict(Without(ExampleCTOSnapshot, CTOOptionalKeys), UtcNow)
    IN  /\ agent' = r
        /\ ret' = [op |-> "CTOAgent.from_dict", raised |-> Raised(r)]
        /\ UNCHANGED <<heap, inst, writers, now, file, saved>>

\* agent = PrincipalSE.from_dict(data) with a snapshot of the required keys only
PSEFromDictMinimalCall ==
    LET r == PSEFromDict(Without(ExamplePSESnapshot, PSEOptionalKeys), UtcNow)
    IN  /\ agent' = r
        /\ ret' = [op |-> "PrincipalSE.from_dict", raised |-> Raised(r)]
        /\ UNCHANGED <<heap, inst, writers, now, file, saved>>

NextPersist ==
    \/ Tick
    \/ CTOConstruct
    \/ PSEConstruct
    \/ SetStrategicGoalsCall
    \/ CTOInsertCall
    \/ DesignSystemCall
    \/ CTOFromDictMinimalCall
    \/ PSEFromDictMinimalCall
    \/ SaveStateCall
    \/ CTOLoadStateCall
    \/ PSELoadStateCall

SpecPersist == Init /\ [][NextPersist]_vars

----------------------------------------------------------------------------
(* Object identity: which containers two instances share *)

\* In this part a container attribute of an instance holds the address of a
\* cell of `heap` (an index of the sequence), as a Python attribute holds a
\* reference to a dict or a list; an assignment copies the address, never the
\* cell.  Everything that is not a container is a value, as before.

\* the reference None
NullRef == 0

\* the heap before any agent exists: the caller's tech_stack dict
\* (src/examples/basic_usage.py:19-24) sits at address CallerTechStack
CallerHeap == << [backend |-> <<"Python", "Node.js">>] >>

CallerTechStack == 1

\* CTOAgent.__init__ at time t, tech_stack being an address or NullRef: the heap
\* after the call and the new instance
HeapCTOInit(h, company_name, industry, tech_stack, t) ==
    LET n == Len(h)
        made == CTOAgentInit(company_name, industry, None, t)
        defaults == made.technology_portfolio
        \* line 42: `tech_stack or {}` keeps the caller's dict unless it is None or empty
        kept == tech_stack # NullRef /\ DOMAIN h[tech_stack] # {}
        portfolio ==
            [x \in DOMAIN defaults |->
                [defaults[x] EXCEPT
                    !.relevant_use_cases = IF x = "AI/ML" THEN n + 2 ELSE n + 3]]
    IN  [heap |-> h \o << EmptyDict,
                          defaults["AI/ML"].relevant_use_cases,
                          defaults["Cloud Native"].relevant_use_cases,
                          portfolio, EmptyList, EmptyDict, EmptyDict >>,
         obj |-> [made EXCEPT
                    !.tech_stack = IF kept THEN tech_stack ELSE n + 1,
                    !.technology_portfolio = n + 4,
                    !.strategic_goals = n + 5,
                    !.team_structure = n + 6,
                    !.budget_allocation = n + 7]]

\* CTOAgent.to_dict: a new dict whose values are the instance's own containers
HeapCTOToDict(h, o) ==
    CTOToDict([o EXCEPT !.technology_portfolio = h[o.technology_portfolio]])

\* CTOAgent.from_dict at time t of a snapshot made by to_dict
HeapCTOFromDict(h, data, t) ==
    LET c == HeapCTOInit(h, data.company_name, data.industry, data.tech_stack, t)
    IN  [heap |-> c.heap \o << CTORebuildPortfolio(data.technology_portfolio, t) >>,
         obj |-> [c.obj EXCEPT
                    !.strategic_goals = data.strategic_goals,
                    !.team_structure = data.team_structure,
                    !.budget_allocation = data.budget_allocation,
                    !.technology_portfolio = Len(c.heap) + 1]]

\* PrincipalSE.__init__ at time t: the heap after the call and the new instance
HeapPSEInit(h, name, expertise, experience_years, t) ==
    LET n == Len(h)
        made == PrincipalSEInit(name, expertise, experience_years, t)
        docker == made.technologies["Docker"]
        kubernetes == made.technologies["Kubernetes"]
        technologies ==
            [x \in DOMAIN made.technologies |->
                LET base == IF x = "Docker" THEN n ELSE n + 3
                IN  [made.technologies[x] EXCEPT
                        !.pros = base + 1, !.cons = base + 2, !.use_cases = base + 3]]
    IN  [heap |-> h \o << docker.pros, docker.cons, docker.use_cases,
                          kubernetes.pros, kubernetes.cons, kubernetes.use_cases,
                          technologies, EmptyDict >>,
         obj |-> [made EXCEPT !.technologies = n + 7, !.system_designs = n + 8]]

\* PrincipalSE.to_dict: a new dict whose lists are the records' own lists
HeapPSEToDict(h, o) ==
    PSEToDict([o EXCEPT !.technologies = h[o.technologies],
                        !.system_designs = h[o.system_designs]])

\* PrincipalSE.from_dict at time t of a snapshot made by to_dict
HeapPSEFromDict(h, data, t) ==
    LET c == HeapPSEInit(h, data.name, data.expertise, data.experience_years, t)
        n == Len(c.heap)
    IN  [heap |-> c.heap \o << PSERebuildTechnologies(data.technologies, t),
                               PSERebuildDesigns(data.system_designs, t) >>,
         obj |-> [c.obj EXCEPT !.technologies = n + 1, !.system_designs = n + 2]]

\* PrincipalSE.design_system at time t: the design's technologies list is new,
\* the design is stored into the instance's own system_designs dict (line 265)
HeapDesignSystem(h, o, requirements, t) ==
    LET design == DesignOf(requirements, t)
    IN  [heap |-> [h EXCEPT ![o.system_designs] =
                        Put(@, design.name, [design EXCEPT !.technologies = Len(h) + 1])]
                  \o << design.technologies >>,
         obj |-> o]

\* the addresses of the containers reachable from the instance o
Reachable(h, o) ==
    IF o.kind = "CTOAgent"
    THEN {o.tech_stack, o.strategic_goals, o.technology_portfolio,
          o.team_structure, o.budget_allocation}
         \cup { h[o.technology_portfolio][x].relevant_use_cases :
                    x \in DOMAIN h[o.technology_portfolio] }
    ELSE IF o.kind = "PrincipalSE"
    THEN {o.technologies, o.system_designs}
         \cup UNION { { h[o.technologies][x].pros, h[o.technologies][x].cons,
                        h[o.technologies][x].use_cases } :
                      x \in DOMAIN h[o.technologies] }
         \cup { h[o.system_designs][x].technologies : x \in DOMAIN h[o.system_designs] }
    ELSE {}

\* nothing exists but the caller's tech_stack dict
InitHeap ==
    /\ agent = NoAgent
    /\ now = 0
    /\ file = NoFile
    /\ saved = None
    /\ ret = [op |-> "none", raised |-> FALSE]
    /\ heap = CallerHeap
    /\ inst = NoInstances
    /\ writers = NoWriters

\* i = CTOAgent(..., tech_stack) with the caller's dict, or without the argument
HeapCTOConstruct ==
    \E i \in DOMAIN inst, ts \in {NullRef, CallerTechStack} :
        /\ inst[i] = NoAgent
        /\ LET c == HeapCTOInit(heap, "FinTech Innovations Inc", "Financial Technology",
                                ts, UtcNow)
           IN  /\ heap' = c.heap
               /\ inst' = [inst EXCEPT ![i] = c.obj]
        /\ UNCHANGED <<agent, now, file, saved, ret, writers>>

\* i = PrincipalSE(...)
HeapPSEConstruct ==
    \E i \in DOMAIN inst :
        /\ inst[i] = NoAgent
        /\ LET c == HeapPSEInit(heap, "Alex Johnson", <<"Cloud Architecture">>,
                                InitExperienceYears, UtcNow)
           IN  /\ heap' = c.heap
               /\ inst' = [inst EXCEPT ![i] = c.obj]
        /\ UNCHANGED <<agent, now, file, saved, ret, writers>>

\* j = type(i).from_dict(i.to_dict())
HeapFromDictCall ==
    \E i \in DOMAIN inst, j \in DOMAIN inst :
        /\ inst[i] # NoAgent
        /\ inst[j] = NoAgent
        /\ LET c == IF inst[i].kind = "CTOAgent"
                    THEN HeapCTOFromDict(heap, HeapCTOToDict(heap, inst[i]), UtcNow)
                    ELSE HeapPSEFromDict(heap, HeapPSEToDict(heap, inst[i]), UtcNow)
           IN  /\ heap' = c.heap
               /\ inst' = [inst EXCEPT ![j] = c.obj]
        /\ UNCHANGED <<agent, now, file, saved, ret, writers>>

\* a.tech_stack[key] = value: the caller changes a's state through its attribute,
\* as src/examples/basic_usage.py:59 does with the portfolio
HeapSetItemCall ==
    /\ inst["a"].kind = "CTOAgent"
    /\ \E key \in {"backend", "frontend"} :
        /\ IF key \in DOMAIN heap[inst["a"].tech_stack]
           THEN heap[inst["a"].tech_stack][key] # <<"Go">>
           ELSE TRUE
        /\ heap' = [heap EXCEPT ![inst["a"].tech_stack] = Put(@, key, <<"Go">>)]
    /\ UNCHANGED <<agent, now, file, saved, ret, inst, writers>>

\* a.design_system(requirements)
HeapDesignSystemCall ==
    /\ inst["a"].kind = "PrincipalSE"
    /\ \E requirements \in DesignRequirements :
        /\ Get(requirements, "name", "Unnamed System")
                \notin DOMAIN heap[inst["a"].system_designs]
        /\ heap' = HeapDesignSystem(heap, inst["a"], requirements, UtcNow).heap
    /\ UNCHANGED <<agent, now, file, saved, ret, inst, writers>>

NextHeap ==
    \/ HeapCTOConstruct
    \/ HeapPSEConstruct
    \/ HeapFromDictCall
    \/ HeapSetItemCall
    \/ HeapDesignSystemCall

SpecHeap == InitHeap /\ [][NextHeap]_vars

----------------------------------------------------------------------------
(* Two save_state calls on one path, step by step *)

\* save_state is `with open(filepath, 'w') as f: json.dump(self.to_dict(), f, indent=2)`:
\* the open truncates the file, json.dump hands the text to the file object, which
\* writes it to the file in one or more pieces at its own position, the last piece
\* at the latest when the with block closes it.  A piece is one or more tokens.

\* what a read finds where a write beyond the end of the file left a gap
Hole == [tok |-> "hole"]

\* the content after `tokens` are written at position pos of an open file
WriteAt(content, pos, tokens) ==
    LET padded == IF pos > Len(content)
                  THEN content \o [i \in 1..(pos - Len(content)) |-> Hole]
                  ELSE content
    IN  SubSeq(padded, 1, pos) \o tokens
            \o SubSeq(padded, pos + Len(tokens) + 1, Len(padded))

\* the agents whose state is saved: a CTOAgent without and with a tech_stack, and
\* a PrincipalSE
SavingAgents ==
    { CTOAgentInit("FinTech Innovations Inc", "Financial Technology", ts, IsoFormat(0)) :
        ts \in TechStacks }
    \cup { PrincipalSEInit("Alex Johnson", <<"Cloud Architecture">>,
                           InitExperienceYears, IsoFormat(0)) }

\* a save_state call of agent a that has not opened the file yet
SaveCalled(a) ==
    [pc |-> "called", pos |-> 0, data |-> JsonEncode(ToDict(a)), last |-> FALSE]

\* two save_state calls have been made on the same path, by any two of the agents
InitSave ==
    /\ agent = NoAgent
    /\ now = 0
    /\ file = NoFile
    /\ saved = None
    /\ ret = [op |-> "none", raised |-> FALSE]
    /\ heap = <<>>
    /\ inst = NoInstances
    /\ writers \in { << SaveCalled(a), SaveCalled(b) >> :
                        a \in SavingAgents, b \in SavingAgents }

\* open(filepath, 'w') of call w
SaveOpen ==
    \E w \in DOMAIN writers :
        /\ writers[w].pc = "called"
        /\ file' = OpenForWrite(file)
        /\ writers' = [writers EXCEPT ![w].pc = "open"]
        /\ UNCHANGED <<agent, now, saved, ret, heap, inst>>

\* call w writes its next piece at its position; it is now the last to have written
SaveWrite ==
    \E w \in DOMAIN writers :
        /\ writers[w].pc = "open"
        /\ \E k \in 1..(Len(writers[w].data) - writers[w].pos) :
            /\ file' = WriteAt(file, writers[w].pos,
                               SubSeq(writers[w].data, writers[w].pos + 1,
                                      writers[w].pos + k))
            /\ writers' = [x \in DOMAIN writers |->
                            IF x = w
                            THEN [writers[x] EXCEPT !.pos = @ + k, !.last = TRUE]
                            ELSE [writers[x] EXCEPT !.last = FALSE]]
        /\ UNCHANGED <<agent, now, saved, ret, heap, inst>>

\* the with block of call w closes the file once everything is written
SaveClose ==
    \E w \in DOMAIN writers :
        /\ writers[w].pc = "open"
        /\ writers[w].pos = Len(writers[w].data)
        /\ writers' = [writers EXCEPT ![w].pc = "closed"]
        /\ UNCHANGED <<agent, now, file, saved, ret, heap, inst>>

NextSave ==
    \/ SaveOpen
    \/ SaveWrite
    \/ SaveClose

SpecSave == InitSave /\ [][NextSave]_vars

----------------------------------------------------------------------------
(* Every operation on a held agent: the ones that change it and the ones that ask *)

\* a review_code whose every comparison ignores case, and that reports the two
\* findings without their details
ReviewCodeIgnoringCase(code, language) ==
    (IF Contains(Lower(code), "password") /\ ~Contains(Lower(code), "encrypt")
     THEN << [category |-> "security", severity |-> "high"] >> ELSE <<>>)
    \o (IF ~Contains(Lower(code), "try") /\ Contains(Lower(code), "error")
        THEN << [category |-> "error_handling", severity |-> "medium"] >> ELSE <<>>)

\* PrincipalSE.review_code: the findings list returned (the language is not read)
ReviewCode(code, language) ==
    LET lowered == Lower(code)
        security ==
            IF Contains(lowered, "password") /\ ~Contains(lowered, "encrypt")
            THEN << [file_path |-> "<unknown>", line_number |-> 0,
                     category |-> "security", severity |-> "high",
                     description |-> "Hardcoded password detected",
                     recommendation |->
                        "Store sensitive data in environment variables or a secure vault",
                     rule_id |-> None] >>
            ELSE <<>>
        error_handling ==
            IF ~Contains(code, "try") /\ Contains(lowered, "error")
            THEN << [file_path |-> "<unknown>", line_number |-> 0,
                     category |-> "error_handling", severity |-> "medium",
                     description |-> "Potential unhandled error case",
                     recommendation |->
                        "Add proper error handling with try/except blocks",
                     rule_id |-> None] >>
            ELSE <<>>
    IN  security \o error_handling

\* the code texts reviewed: each keyword absent, present, in another case, inside a
\* longer word
CodeSamples ==
    { "", "x = 1", "password", "PASSWORD", "encrypt(password)", "ENCRYPT(Password)",
      "error", "ERROR", "try: error", "TRY: error", "entry error", "password error",
      "Password ERROR", "try: encrypt(password) error" }

\* a review_code that keeps what it found in self.code_review_findings
ReviewCodeCallStoring ==
    /\ agent.kind = "PrincipalSE"
    /\ \E code \in CodeSamples, language \in {"python", "java", ""} :
        /\ ret' = [op |-> "review_code", raised |-> FALSE, code |-> code,
                   language |-> language, result |-> ReviewCode(code, language)]
        /\ agent' = [agent EXCEPT !.code_review_findings =
                                    @ \o ReviewCode(code, language)]
    /\ UNCHANGED <<now, file, saved, heap, inst, writers>>

\* findings = agent.review_code(code, language)
ReviewCodeCall ==
    /\ agent.kind = "PrincipalSE"
    /\ \E code \in CodeSamples, language \in {"python", "java", ""} :
        ret' = [op |-> "review_code", raised |-> FALSE, code |-> code,
                language |-> language, result |-> ReviewCode(code, language)]
    /\ UNCHANGED <<agent, now, file, saved, heap, inst, writers>>

\* CTOAgent.generate_roadmap: the dict returned (budget shares in percent)
GenerateRoadmap(timeframe) ==
    [timeframe |-> timeframe,
     initiatives |->
        << [name |-> "Cloud Migration",
            description |-> "Migrate on-premises infrastructure to cloud",
            timeline |-> "Q1-Q2", priority |-> "High"],
           [name |-> "AI/ML Integration",
            description |-> "Implement AI/ML capabilities for business processes",
            timeline |-> "Q2-Q3", priority |-> "High"],
           [name |-> "DevOps Maturity",
            description |-> "Enhance CI/CD pipelines and automation",
            timeline |-> "Q3-Q4", priority |-> "Medium"] >>,
     key_technologies |->
        <<"Cloud Services", "AI/ML Platforms", "Containerization", "IaC">>,
     budget_allocation |->
        [cloud_infrastructure |-> 40, talent_acquisition |-> 30,
         training_development |-> 15, rnd |-> 15]]

\* CTOAgent.communicate_strategy: the text returned
CommunicateStrategy(a, audience) ==
    IF audience = "executive"
    THEN "As the CTO of " \o a.company_name
         \o ", our technology strategy is focused on "
         \o "driving business value through innovation in the " \o a.industry
         \o " sector. "
         \o "Our key priorities include digital transformation, cloud adoption, and "
         \o "leveraging AI/ML for competitive advantage."
    ELSE IF audience = "technical"
    THEN "Our technical strategy emphasizes scalable architecture, developer "
         \o "productivity, and operational excellence. We're investing in modern "
         \o "practices like DevOps, cloud-native development, and continuous "
         \o "learning to build a future-ready technology organization."
    ELSE "The technology strategy for " \o a.company_name
         \o " is designed to support "
         \o "our business objectives in the " \o a.industry
         \o " market. Through strategic "
         \o "investments in digital capabilities, we aim to drive innovation, "
         \o "operational efficiency, and sustainable growth."

\* the agents the examples have built by time 0: the CTOAgent with its tech stack and
\* the added Blockchain record (src/examples/basic_usage.py:16-59), the PrincipalSE
\* with the design of the e-commerce platform (src/examples/principal_se_demo.py:16-55)
HeldAgents ==
    { CTOInsert(CTOAgentInit("FinTech Innovations Inc", "Financial Technology",
                             [backend |-> <<"Python", "Node.js">>], IsoFormat(0)),
                CHOOSE tech \in CTONewTechs(IsoFormat(0)) : tech.name = "Blockchain"),
      DesignSystem(PrincipalSEInit("Alex Johnson", <<"Cloud Architecture">>, 15,
                                   IsoFormat(0)),
                   CHOOSE r \in DesignRequirements : "name" \in DOMAIN r,
                   IsoFormat(0)) }

\* one of the agents is held, and time has passed since it was built
InitCalls ==
    /\ agent \in HeldAgents
    /\ now = 1
    /\ file = NoFile
    /\ saved = None
    /\ ret = [op |-> "none", raised |-> FALSE]
    /\ heap = <<>>
    /\ inst = NoInstances
    /\ writers = NoWriters

\* result = agent.make_decision(context)
MakeDecisionQuery ==
    /\ agent.kind = "CTOAgent"
    /\ \E context \in { EmptyDict, [options |-> <<AWS, Azure, GCP>>] } :
        ret' = [op |-> "make_decision", raised |-> FALSE,
                result |-> MakeDecision(context)]
    /\ UNCHANGED <<agent, now, file, saved, heap, inst, writers>>

\* roadmap = agent.generate_roadmap(timeframe)
GenerateRoadmapCall ==
    /\ agent.kind = "CTOAgent"
    /\ \E timeframe \in {"1y", "6m"} :
        ret' = [op |-> "generate_roadmap", raised |-> FALSE,
                result |-> GenerateRoadmap(timeframe)]
    /\ UNCHANGED <<agent, now, file, saved, heap, inst, writers>>

\* text = agent.communicate_strategy(audience)
CommunicateStrategyCall ==
    /\ agent.kind = "CTOAgent"
    /\ \E audience \in {"executive", "technical", "board"} :
        ret' = [op |-> "communicate_strategy", raised |-> FALSE,
                result |-> CommunicateStrategy(agent, audience)]
    /\ UNCHANGED <<agent, now, file, saved, heap, inst, writers>>

\* snapshot = agent.to_dict()
ToDictCall ==
    /\ agent.kind # "none"
    /\ ret' = [op |-> "to_dict", raised |-> FALSE, result |-> ToDict(agent)]
    /\ UNCHANGED <<agent, now, file, saved, heap, inst, writers>>

NextCalls ==
    \/ SetStrategicGoalsCall
    \/ AssessTechnologyCall
    \/ EvaluateTechnologyCall
    \/ MakeDecisionQuery
    \/ ReviewCodeCall
    \/ GenerateRoadmapCall
    \/ CommunicateStrategyCall
    \/ ToDictCall
    \/ SaveStateCall

SpecCalls == InitCalls /\ [][NextCalls]_vars

----------------------------------------------------------------------------
(* Claims *)

\* C1: snapshot round trip.  In every state reached by construction,
\* set_strategic_goals, design_system, catalog insertion and from_dict, for an agent
\* of either class, from_dict of the agent's to_dict does not raise and its to_dict
\* equals the agent's to_dict, whatever the clock reads at the time of from_dict.
C1_RoundTrip ==
    agent.kind # "none" =>
        LET s == ToDict(agent)
            r == IF agent.kind = "CTOAgent" THEN CTOFromDict(s, UtcNow)
                 ELSE PSEFromDict(s, UtcNow)
        IN  ~Raised(r) /\ ToDict(r) = s

\* a PrincipalSE rebuilt by from_dict that holds a design and a record stamped earlier
C1_Witness ==
    /\ agent.kind = "PrincipalSE"
    /\ ret.op = "PrincipalSE.from_dict"
    /\ ~ret.raised
    /\ DOMAIN agent.system_designs # {}
    /\ \E n \in DOMAIN agent.technologies : agent.technologies[n].last_evaluated # UtcNow

\* what from_dict gives the optional fields the snapshot `data` lacks, CTOAgent
CTODefaulted(a, data, t) ==
    /\ "tech_stack" \notin DOMAIN data => a.tech_stack = EmptyDict
    /\ "strategic_goals" \notin DOMAIN data => a.strategic_goals = EmptyList
    /\ "team_structure" \notin DOMAIN data => a.team_structure = EmptyDict
    /\ "budget_allocation" \notin DOMAIN data => a.budget_allocation = EmptyDict
    /\ "technology_portfolio" \notin DOMAIN data => a.technology_portfolio = EmptyDict
    /\ \A n \in RecordNames(data, "technology_portfolio") :
          "last_updated" \notin DOMAIN data.technology_portfolio[n]
              => a.technology_portfolio[n].last_updated = t

\* what from_dict gives the optional containers and timestamps the snapshot lacks,
\* PrincipalSE
PSEDefaulted(a, data, t) ==
    /\ "technologies" \notin DOMAIN data => a.technologies = EmptyDict
    /\ "system_designs" \notin DOMAIN data => a.system_designs = EmptyDict
    /\ \A n \in RecordNames(data, "technologies") :
          "last_evaluated" \notin DOMAIN data.technologies[n]
              => a.technologies[n].last_evaluated = t
    /\ \A n \in RecordNames(data, "system_designs") :
          "created_at" \notin DOMAIN data.system_designs[n]
              => a.system_designs[n].created_at = t

\* the call was a from_dict on a snapshot that holds the required keys
C10_CTOCase == ret.op = "CTOAgent.from_dict" /\ CTORequiredKeys \subseteq DOMAIN ret.data

C10_PSECase == ret.op = "PrincipalSE.from_dict" /\ PSERequiredKeys \subseteq DOMAIN ret.data

\* C10 (as amended): from_dict of a snapshot that lacks any subset of the optional
\* fields, or carries an unknown key, does not raise; every missing container field is
\* an empty container, every missing timestamp is the time of the call, and a missing
\* experience_years is the number 5.
C10_MissingDefaulted ==
    /\ C10_CTOCase => ~ret.raised /\ CTODefaulted(agent, ret.data, ret.at)
    /\ C10_PSECase =>
          /\ ~ret.raised
          /\ PSEDefaulted(agent, ret.data, ret.at)
          /\ "experience_years" \notin DOMAIN ret.data
                => agent.experience_years = FromDictExperienceYears

\* a PrincipalSE.from_dict of a snapshot with an unknown key and without
\* experience_years, technologies and a design's created_at
C10_Witness ==
    /\ C10_PSECase
    /\ "schema_version" \in DOMAIN ret.data
    /\ {"experience_years", "technologies"} \cap DOMAIN ret.data = {}
    /\ \E n \in RecordNames(ret.data, "system_designs") :
          "created_at" \notin DOMAIN ret.data.system_designs[n]

\* C10 (as claimed): every missing field is an empty container or the current
\* timestamp.  experience_years holds a number, which is neither.
C10_AllEmptyOrTimestamp ==
    /\ C10_CTOCase => ~ret.raised /\ CTODefaulted(agent, ret.data, ret.at)
    /\ C10_PSECase =>
          /\ ~ret.raised
          /\ PSEDefaulted(agent, ret.data, ret.at)
          /\ "experience_years" \notin DOMAIN ret.data
                => agent.experience_years \notin Nat

\* C2: an unknown technology is a value.  For every name that is not a key of the
\* catalog and every context (None included), evaluate_technology returns exactly a
\* status "not_found" and a message, assess_technology returns exactly a status
\* "unknown" and a message, and neither raises.
C2_UnknownIsValue ==
    /\ (ret.op = "evaluate_technology" /\ ret.name \notin DOMAIN agent.technologies) =>
          /\ ~ret.raised
          /\ DOMAIN ret.result = {"status", "message"}
          /\ ret.result.status = "not_found"
    /\ (ret.op = "assess_technology" /\ ret.name \notin DOMAIN agent.technology_portfolio) =>
          /\ ~ret.raised
          /\ DOMAIN ret.result = {"status", "message"}
          /\ ret.result.status = "unknown"
          /\ Len(ret.result.message) > 0

\* evaluate_technology("Unknown", None) on a PrincipalSE whose catalog holds more than
\* the defaults
C2_Witness ==
    /\ ret.op = "evaluate_technology"
    /\ ret.name = "Unknown"
    /\ ret.context = None
    /\ "Rust" \in DOMAIN agent.technologies

\* the recommendation the rule table of the specification gives
RuleTable(maturity, potential_impact) ==
    IF maturity = "emerging" /\ potential_impact = "High"
    THEN "Monitor and consider pilot projects"
    ELSE IF maturity = "mature" /\ potential_impact \in {"High", "Medium"}
    THEN "Strong candidate for adoption"
    ELSE "Evaluate case-by-case"

\* C4: for a catalog record of any maturity in {mature, growth, emerging, legacy} and
\* any potential_impact in {High, Medium, Low}, assess_technology returns the
\* recommendation of the first matching rule of the table.
C4_RuleTable ==
    (ret.op = "assess_technology" /\ ret.name \in DOMAIN agent.technology_portfolio) =>
        LET tech == agent.technology_portfolio[ret.name]
        IN  (tech.maturity \in Maturities /\ tech.potential_impact \in Impacts) =>
                /\ ~ret.raised
                /\ ret.result.recommendation = RuleTable(tech.maturity, tech.potential_impact)

\* an assessment of a mature record of Medium impact
C4_Witness ==
    /\ ret.op = "assess_technology"
    /\ ret.name = "Blockchain"
    /\ "Blockchain" \in DOMAIN agent.technology_portfolio
    /\ agent.technology_portfolio["Blockchain"].maturity = "mature"
    /\ agent.technology_portfolio["Blockchain"].potential_impact = "Medium"
    /\ ret.result.recommendation = "Strong candidate for adoption"

\* the call is evaluate_technology("Docker", {requirements: ["Microservices"]}) on a
\* PrincipalSE that holds the default catalog
C5_Case ==
    /\ ret.op = "evaluate_technology"
    /\ ret.name = "Docker"
    /\ ret.context = [requirements |-> <<"Microservices">>]
    /\ agent.technologies = InsertAll(EmptyDict, PSEDefaultTechs(IsoFormat(0)))

\* C5: on a freshly constructed PrincipalSE, evaluate_technology("Docker",
\* {requirements: ["Microservices"]}) returns fit_score 10.0 (100 tenths) and the
\* recommendation "Strongly recommend adoption".
C5_DockerFit ==
    C5_Case =>
        /\ ~ret.raised
        /\ ret.result.fit_score = 100
        /\ ret.result.recommendation = "Strongly recommend adoption"

C5_Witness == C5_Case /\ ~ret.raised /\ ret.result.technology = "Docker"

\* make_decision has returned
DecisionReturned == ret.op = "make_decision" /\ ret.phase = "returned"

\* C3: make_decision with an empty options list, or with no options key, returns a
\* result whose decision is None and whose rationale is a non-empty string, for any
\* criteria list, and does not raise.
C3_EmptyOptionsSentinel ==
    (DecisionReturned /\ Get(ret.context, "options", EmptyList) = EmptyList) =>
        /\ ~ret.raised
        /\ ret.result.decision = None
        /\ Len(ret.result.rationale) > 0

\* make_decision returned for a context with criteria and no options key
C3_Witness ==
    /\ DecisionReturned
    /\ DOMAIN ret.context = {"criteria"}
    /\ ret.context.criteria = <<"risk", "cost">>

\* the call of src/examples/basic_usage.py has returned
ExampleDecided ==
    /\ DecisionReturned
    /\ ret.context = [options |-> <<AWS, Azure, GCP>>, criteria |-> DefaultCriteria]

\* C6: for the AWS/Azure/GCP example with all three criteria, make_decision returns
\* AWS as the decision and ranks all_options AWS, Azure, GCP.
C6_ExampleRanking ==
    ExampleDecided =>
        /\ ret.result.decision = AWS
        /\ [i \in 1..Len(ret.result.all_options) |-> ret.result.all_options[i].option]
              = <<AWS, Azure, GCP>>

C6_Witness == ExampleDecided /\ ret.result.decision.name = "AWS"

\* the scores of all_options, in thousandths
ResultScores == [i \in 1..Len(ret.result.all_options) |-> ret.result.all_options[i].score]

\* C7 (as amended): for the AWS/Azure/GCP example with all three criteria, the score
\* computed for AWS is 0.9*0.5 + (1-0.7)*0.3 + (1-0.2)*0.2 = 0.70, and the three
\* options' scores are 0.70, 0.66 and 0.53.
C7_ExampleScores ==
    ExampleDecided =>
        /\ ret.result.score = 700
        /\ ResultScores = <<700, 660, 530>>

C7_Witness == ExampleDecided /\ ret.result.all_options[1].option.name = "AWS"

\* C7 (as claimed): the score computed for AWS is 0.64 and the three options' scores
\* are 0.74, 0.68 and 0.61.
C7_ClaimedScores ==
    ExampleDecided =>
        /\ ret.result.score = 640
        /\ ResultScores = <<740, 680, 610>>

\* C8: tie stability.  For every score, the options of all_options that have that score
\* are the input options that have it, in input order; so the decision is the earliest
\* input option of maximal score.
C8_TieStability ==
    (DecisionReturned /\ Get(ret.context, "options", EmptyList) # EmptyList) =>
        LET options == ret.context.options
            criteria == Get(ret.context, "criteria", DefaultCriteria)
            ranked == ret.result.all_options
            first_best == CHOOSE i \in 1..Len(options) :
                /\ \A j \in 1..Len(options) :
                      ScoreOf(options[j], criteria) <= ScoreOf(options[i], criteria)
                /\ \A j \in 1..(i - 1) :
                      ScoreOf(options[j], criteria) < ScoreOf(options[i], criteria)
        IN  /\ \A k \in 1..Len(ranked) :
                  LET tied == SelectSeq(ranked, LAMBDA x : x.score = ranked[k].score)
                  IN  [i \in 1..Len(tied) |-> tied[i].option]
                        = SelectSeq(options,
                                    LAMBDA o : ScoreOf(o, criteria) = ranked[k].score)
            /\ ret.result.decision = options[first_best]

\* OnPrem and Hybrid tie at 0.55 below AWS, Hybrid given first
C8_Witness ==
    /\ DecisionReturned
    /\ ret.context = [options |-> <<[name |-> "Hybrid", strategic_alignment_score |-> 50,
                                     cost_score |-> 0, risk_score |-> 100],
                                    AWS,
                                    [name |-> "OnPrem", strategic_alignment_score |-> 60,
                                     cost_score |-> 50, risk_score |-> 50]>>]
    /\ ret.result.all_options[2].option.name = "Hybrid"
    /\ ret.result.all_options[3].option.name = "OnPrem"
    /\ ret.result.all_options[2].score = ret.result.all_options[3].score

\* load_state of the class that made the last completed save has been called
C9_Case ==
    /\ saved # None
    /\ \/ ret.op = "CTOAgent.load_state" /\ saved.kind = "CTOAgent"
       \/ ret.op = "PrincipalSE.load_state" /\ saved.kind = "PrincipalSE"

\* the names of the catalog of an agent, and of the catalog of a snapshot
CatalogNames(a) ==
    IF a.kind = "CTOAgent" THEN DOMAIN a.technology_portfolio ELSE DOMAIN a.technologies

SnapshotCatalogNames(s) ==
    IF "company_name" \in DOMAIN s THEN DOMAIN s.technology_portfolio
    ELSE DOMAIN s.technologies

\* C9: save fully overwrites and load fully rebuilds.  After any sequence of completed
\* save_state calls to the path, load_state (of the class of the last save) does not
\* raise and returns an agent whose to_dict is the snapshot the last save wrote; its
\* catalog holds exactly that snapshot's entries.
C9_LoadReturnsLastSave ==
    C9_Case =>
        /\ ~ret.raised
        /\ ToDict(agent) = saved.snapshot
        /\ CatalogNames(agent) = SnapshotCatalogNames(saved.snapshot)

\* a CTOAgent without the default technologies, loaded at a later time from a file
\* that was written twice
C9_Witness ==
    /\ C9_Case
    /\ agent.kind = "CTOAgent"
    /\ "Cloud Native" \notin DOMAIN agent.technology_portfolio
    /\ "Blockchain" \in DOMAIN agent.technology_portfolio
    /\ agent.technology_portfolio["Blockchain"].last_updated # UtcNow

\* C11: no mutable container is reachable from two distinct instances, whether
\* the second was built by from_dict(first.to_dict()) or both were constructed
\* from the same tech_stack argument
C11_NoSharedContainer ==
    (inst["a"] # NoAgent /\ inst["b"] # NoAgent)
        => Reachable(heap, inst["a"]) \cap Reachable(heap, inst["b"]) = {}

\* C12: once two interleaved save_state calls on one path have both completed,
\* the file holds exactly the complete snapshot of the call that wrote last
C12_LastWriterWins ==
    (\A w \in DOMAIN writers : writers[w].pc = "closed")
        => \E w \in DOMAIN writers : writers[w].last /\ file = writers[w].data

\* whether review_code has just returned
Reviewed == ret.op = "review_code"

\* the categories and severities of the findings returned, in order
FindingKinds(findings) ==
    [i \in 1..Len(findings) |-> <<findings[i].category, findings[i].severity>>]

\* C13: review_code returns, in this order, one high security finding iff the
\* lower-cased code contains "password" and not "encrypt", and one medium
\* error_handling finding iff the lower-cased code contains "error" and the code as
\* written does not contain "try"; whatever the language
C13_TwoRules ==
    Reviewed =>
        FindingKinds(ret.result) =
            LET lowered == Lower(ret.code)
            IN  (IF Contains(lowered, "password") /\ ~Contains(lowered, "encrypt")
                 THEN << <<"security", "high">> >> ELSE <<>>)
                \o (IF Contains(lowered, "error") /\ ~Contains(ret.code, "try")
                    THEN << <<"error_handling", "medium">> >> ELSE <<>>)

\* an upper-case ERROR alone is reported, an upper-case TRY does not prevent the report
C13_Witness ==
    /\ Reviewed
    /\ ret.code = "TRY: error"
    /\ Len(ret.result) = 1

\* C13 as stated: the first rule compares without regard to case, the second finds
\* "error" and "try" in the code as written
C13_ErrorAsWritten ==
    Reviewed =>
        FindingKinds(ret.result) =
            LET lowered == Lower(ret.code)
            IN  (IF Contains(lowered, "password") /\ ~Contains(lowered, "encrypt")
                 THEN << <<"security", "high">> >> ELSE <<>>)
                \o (IF Contains(ret.code, "error") /\ ~Contains(ret.code, "try")
                    THEN << <<"error_handling", "medium">> >> ELSE <<>>)

\* evaluate_technology has returned the evaluation of a catalog record for a context
\* that is a dict
Evaluated ==
    /\ ret.op = "evaluate_technology"
    /\ ret.name \in DOMAIN agent.technologies
    /\ ret.context # None

\* the maturity weight of the specification's table, in tenths
MaturityWeight(maturity) ==
    IF Lower(maturity) = "mature" THEN 10
    ELSE IF Lower(maturity) = "growth" THEN 8
    ELSE IF Lower(maturity) = "emerging" THEN 6
    ELSE IF Lower(maturity) = "legacy" THEN 4
    ELSE 5

\* the requirements that are a case-insensitive substring of at least one use case
MatchedRequirements(requirements, use_cases) ==
    { i \in DOMAIN requirements :
        \E j \in DOMAIN use_cases :
            Contains(Lower(use_cases[j]), Lower(requirements[i])) }

\* C14: the fit score is (w * 0.4 + f * 0.6) * 10 rounded to one decimal, w being the
\* maturity weight and f the fraction of matched requirements; without requirements
\* it is w * 0.4 * 10; it never exceeds 10.0.  In tenths: the score s is the integer
\* nearest to 4 * w10 + 60 * m / n.
C14_FitScore ==
    Evaluated =>
        LET tech == agent.technologies[ret.name]
            requirements == Get(ret.context, "requirements", EmptyList)
            n == Len(requirements)
            m == Cardinality(MatchedRequirements(requirements, tech.use_cases))
            w10 == MaturityWeight(tech.maturity)
            s == ret.result.fit_score
        IN  /\ ~ret.raised
            /\ s \in 0..100
            /\ n = 0 => s = 4 * w10
            /\ n > 0 => /\ 2 * (s * n - (4 * w10 * n + 60 * m)) <= n
                        /\ 2 * ((4 * w10 * n + 60 * m) - s * n) <= n

\* a record whose maturity is spelled "Growth", with two of seven requirements matched:
\* (0.8 * 0.4 + 2/7 * 0.6) * 10 = 4.914..., rounded to 4.9
C14_Witness ==
    /\ Evaluated
    /\ agent.technologies[ret.name].maturity = "Growth"
    /\ Len(Get(ret.context, "requirements", EmptyList)) = 7
    /\ ret.result.fit_score = 49

\* C15: the recommendation is determined by the fit score alone: at least 8.0 gives
\* "Strongly recommend adoption", at least 6.0 and below 8.0 gives "Consider for
\* pilot", below 6.0 gives "Not recommended at this time"
C15_Bands ==
    Evaluated =>
        LET s == ret.result.fit_score
        IN  /\ s >= 80 <=> ret.result.recommendation = "Strongly recommend adoption"
            /\ (60 <= s /\ s < 80) <=> ret.result.recommendation = "Consider for pilot"
            /\ s < 60 <=> ret.result.recommendation = "Not recommended at this time"

\* a score of exactly 6.0 (a mature record, one of three requirements matched) is
\* in the middle band
C15_Witness ==
    /\ Evaluated
    /\ ret.result.fit_score = 60
    /\ ret.result.recommendation = "Consider for pilot"

\* make_decision has returned a ranking: its options list was not empty
Ranked == DecisionReturned /\ Len(Get(ret.context, "options", EmptyList)) > 0

\* the criteria list in force: the one given, or all three when the key is absent
CriteriaInForce == Get(ret.context, "criteria", <<"strategic_alignment", "cost", "risk">>)

\* whether the criterion appears in the criteria list in force
Appears(criterion) == \E i \in DOMAIN CriteriaInForce : CriteriaInForce[i] = criterion

\* the three terms of the specification, in thousandths (the fields are in hundredths)
StrategicTerm(option) ==
    (IF "strategic_alignment_score" \in DOMAIN option
     THEN option.strategic_alignment_score ELSE 0) * 5

CostTerm(option) ==
    LET cost_score == IF "cost_score" \in DOMAIN option THEN option.cost_score ELSE 50
    IN  (100 - (IF cost_score < 100 THEN cost_score ELSE 100)) * 3

RiskTerm(option) ==
    LET risk_score == IF "risk_score" \in DOMAIN option THEN option.risk_score ELSE 50
    IN  (100 - (IF risk_score < 100 THEN risk_score ELSE 100)) * 2

\* C16: an option's score is the sum, over the criteria in the list (all three when
\* the key is absent), of strategic * 0.5 (default 0), (1 - min(cost, 1)) * 0.3 and
\* (1 - min(risk, 1)) * 0.2 (defaults 0.5); a cost or risk above 1 contributes 0, a
\* negative one more than the term's weight, a criterion not in the list nothing
C16_ScoreFormula ==
    Ranked =>
        \A i \in DOMAIN ret.result.all_options :
            LET option == ret.result.all_options[i].option
                score == ret.result.all_options[i].score
            IN  /\ score = (IF Appears("strategic_alignment")
                                THEN StrategicTerm(option) ELSE 0)
                           + (IF Appears("cost") THEN CostTerm(option) ELSE 0)
                           + (IF Appears("risk") THEN RiskTerm(option) ELSE 0)
                /\ (CriteriaInForce = <<"cost">> /\ "cost_score" \in DOMAIN option) =>
                        /\ option.cost_score > 100 => score = 0
                        /\ option.cost_score < 0 => score > 300
                /\ (CriteriaInForce = <<"risk">> /\ "risk_score" \in DOMAIN option) =>
                        /\ option.risk_score > 100 => score = 0
                        /\ option.risk_score < 0 => score > 200

\* with only the risk criterion, an option of cost 1.5 and risk -0.2 scores
\* (1 + 0.2) * 0.2 = 0.24, more than the weight 0.2
C16_Witness ==
    /\ Ranked
    /\ CriteriaInForce = <<"risk">>
    /\ \E i \in DOMAIN ret.result.all_options :
        /\ ret.result.all_options[i].option.name = "Edge"
        /\ ret.result.all_options[i].score = 240

\* the one-to-one maps of 1..n onto itself
Bijections(n) == { p \in [1..n -> 1..n] : \A i, j \in 1..n : p[i] = p[j] => i = j }

\* C17: for a non-empty options list, all_options is a permutation of the input
\* options, each paired with its score, in non-increasing score order; decision is
\* the option of the first entry, score the maximum of the scores, and the rationale
\* names the criteria used
C17_Ranking ==
    Ranked =>
        LET options == ret.context.options
            ranked == ret.result.all_options
        IN  /\ Len(ranked) = Len(options)
            /\ \E p \in Bijections(Len(options)) :
                \A i \in DOMAIN ranked :
                    ranked[i] = [option |-> options[p[i]],
                                 score |-> ScoreOf(options[p[i]], CriteriaInForce)]
            /\ \A i, j \in DOMAIN ranked : i < j => ranked[i].score >= ranked[j].score
            /\ ret.result.decision = ranked[1].option
            /\ \A i \in DOMAIN ranked : ret.result.score >= ranked[i].score
            /\ \E i \in DOMAIN ranked : ret.result.score = ranked[i].score
            /\ \A i \in DOMAIN CriteriaInForce :
                Contains(ret.result.rationale, CriteriaInForce[i])

\* three options of different scores given worst first come back best first
C17_Witness ==
    /\ Ranked
    /\ ret.context.options = <<GCP, Azure, AWS>>
    /\ ret.result.all_options[1].option = AWS
    /\ ret.result.all_options[3].option = GCP

\* the operations that only ask
QueryOps ==
    {"assess_technology", "evaluate_technology", "make_decision", "review_code",
     "generate_roadmap", "communicate_strategy", "to_dict", "save_state"}

\* C18: a query operation leaves the agent's state (catalog with its timestamps,
\* goals, stored designs, stored review findings) as it was, and of two consecutive
\* to_dict calls the second returns a snapshot equal to the first's
C18_QueriesKeepState ==
    [][/\ ret'.op \in QueryOps => agent' = agent
       /\ (ret.op = "to_dict" /\ ret'.op = "to_dict") => ret'.result = ret.result]_vars

\* to_dict has returned on a PrincipalSE that holds a design and whose state was
\* saved before, at a time later than the one its records are stamped with
C18_Witness ==
    /\ ret.op = "to_dict"
    /\ agent.kind = "PrincipalSE"
    /\ DOMAIN agent.system_designs # {}
    /\ file # NoFile
    /\ \A n \in DOMAIN agent.technologies :
        agent.technologies[n].last_evaluated # UtcNow

\* every entry of the dict is stored under its record's name
KeyedByName(dict) == \A n \in DOMAIN dict : dict[n].name = n

\* C19: in every state reached by construction, design_system, set_strategic_goals,
\* from_dict and load_state, every catalog entry and every system_designs entry is
\* stored under a key equal to its name, and after design_system the one design
\* stored under the name is the design that call made
C19_KeyEqualsName ==
    /\ agent.kind = "CTOAgent" => KeyedByName(agent.technology_portfolio)
    /\ agent.kind = "PrincipalSE" =>
        /\ KeyedByName(agent.technologies)
        /\ KeyedByName(agent.system_designs)
    /\ ret.op = "design_system" =>
        /\ agent.system_designs[ret.result.name] = ret.result
        /\ Cardinality({ n \in DOMAIN agent.system_designs :
                            agent.system_designs[n].name = ret.result.name }) = 1

\* design_system has been called a second time with the name "Unnamed System": the
\* saved snapshot still shows the earlier design, which had other patterns
C19_Witness ==
    /\ ret.op = "design_system"
    /\ ret.result.name = "Unnamed System"
    /\ saved # None
    /\ saved.kind = "PrincipalSE"
    /\ "Unnamed System" \in DOMAIN saved.snapshot.system_designs
    /\ saved.snapshot.system_designs["Unnamed System"].patterns
            # PatternValues(ret.result.patterns)

\* C20: set_strategic_goals is all-or-nothing: a call that returns normally leaves
\* its argument as the whole goals list, and a call that raises leaves the agent's
\* strategic_goals as they were before the call
C20_AllOrNothing ==
    [][ret'.op = "set_strategic_goals" =>
            IF ret'.raised
            THEN agent'.strategic_goals = agent.strategic_goals
            ELSE agent'.strategic_goals \in GoalLists]_vars

\* C21: without a requirements key or with an empty requirements list, every known
\* technology gets "Not recommended at this time" whatever its maturity (its fit
\* score is at most 4.0); and a technology of maturity legacy never gets "Strongly
\* recommend adoption", whatever the requirements (its fit score is at most 7.6)
C21_NoRequirementsOrLegacy ==
    Evaluated =>
        LET tech == agent.technologies[ret.name]
        IN  /\ ("requirements" \notin DOMAIN ret.context
                    \/ ret.context.requirements = <<>>) =>
                /\ ret.result.fit_score <= 40
                /\ ret.result.recommendation = "Not recommended at this time"
            /\ Lower(tech.maturity) = "legacy" =>
                /\ ret.result.fit_score <= 76
                /\ ret.result.recommendation # "Strongly recommend adoption"

\* a legacy record all of whose requirements are matched reaches 7.6, the most a
\* legacy record can get, and is considered for a pilot
C21_Witness ==
    /\ Evaluated
    /\ agent.technologies[ret.name].maturity = "legacy"
    /\ ret.result.fit_score = 76
    /\ ret.result.recommendation = "Consider for pilot"

====
